---- MODULE Spec2Model ----
(***************************************************************************)
(* FluxFaaS execution substrate: load balancer (scheduler/balancer.rs),    *)
(* function pool (scheduler/pool.rs), lifecycle manager                    *)
(* (scheduler/lifecycle.rs), instance manager (runtime/instance.rs),       *)
(* sandbox executor (runtime/sandbox.rs), resource manager                 *)
(* (runtime/resource.rs) and compiler (runtime/compiler.rs).               *)
(*                                                                         *)
(* There is one specification per subsystem over the shared variable       *)
(* tuple: SpecLB, SpecBreaker and SpecHalfOpen (load balancer),            *)
(* SpecRoundRobin and SpecConsistentHash (load balancer, with the          *)
(* selections kept), SpecInst (instance manager with the sandbox),         *)
(* SpecLimits (executions whose child goes over the memory cap), SpecPool  *)
(* (function pool on top of the instance manager), SpecRouting (the pool's *)
(* execute path with the health check), SpecUpDown (a scale-up followed by *)
(* a scale-down), SpecScale and SpecScaleFair (the pool with its clock and *)
(* auto-scaling task, the latter with its tasks scheduled fairly),         *)
(* SpecShutdown (pool stop and manager cleanup with an execution in        *)
(* flight), SpecPoolManager (create_pool and remove_pool), SpecCompile     *)
(* (compiler and its cache), SpecRing (add_target and remove_target in     *)
(* their two lock sections), SpecWeightedRoundRobin (weighted selections   *)
(* kept), SpecStopped (pool stop beside the pool's other calls) and        *)
(* SpecLifecycle (lifecycle manager and its cleanup task).  The variables  *)
(* of the subsystems a specification does not run stay at their initial    *)
(* values.                                                                 *)
(***************************************************************************)
EXTENDS Integers, Sequences, FiniteSets, TLC

VARIABLES
    \* ---- LoadBalancer (scheduler/balancer.rs) ----
    lbConfig,      \* LoadBalancerConfig: strategy and failover thresholds
    targets,       \* LoadBalancer.targets: id -> LoadBalanceTarget
    iterOrder,     \* iteration order of the targets HashMap (sequence of ids)
    lbState,       \* LoadBalancerState
    now,           \* the monotonic clock (Instant::now), in seconds
    lbResult,      \* what the last LoadBalancer call returned
    failRun,       \* history: consecutive failed status updates per target
    draws          \* history: pseudo-random draws made so far

lbVars == <<lbConfig, targets, iterOrder, lbState, now, lbResult, failRun, draws>>

VARIABLES
    \* ---- InstanceManager (runtime/instance.rs) ----
    autoWarm,         \* default_config.enable_auto_warm
    activeInstances,  \* active_instances: instance id -> FunctionInstance
    lifecycleEvents,  \* lifecycle_events, per instance: the event types in order
    nextInstanceId,   \* the next instance id create_instance allocates
    sweepList,        \* the expired instances the cleanup task has collected
    \* ---- ResourceManager (runtime/resource.rs), SandboxExecutor (runtime/sandbox.rs) ----
    activeMonitors,   \* ResourceManager.active_monitors: pid -> monitor
    activeProcesses,  \* SandboxExecutor.active_processes: pid -> ProcessMonitor
    samplers,         \* the sampler tasks: pid -> how many monitors of it are sampling
    \* ---- FunctionPool (scheduler/pool.rs) ----
    poolConfig,       \* PoolConfig
    poolState,        \* PoolState
    poolInstances,    \* FunctionPool.instances: instance id -> PoolInstance
    poolNow,          \* the monotonic clock the pool reads (Instant::now), in seconds
    lastScaleUp,      \* FunctionPool.last_scale_up: Option<Instant>
    lastScaleDown,    \* FunctionPool.last_scale_down: Option<Instant>
    scalerLog,        \* what the auto-scaling task logged last
    \* ---- the callers ----
    calls,            \* per caller: the call it is in, its position and locals
    started           \* history: calls started so far

instVars == <<activeInstances, lifecycleEvents, nextInstanceId>>
sbVars == <<activeMonitors, activeProcesses, samplers>>
scaleVars == <<poolNow, lastScaleUp, lastScaleDown, scalerLog>>
poolVars == <<poolConfig, poolState, poolInstances, scaleVars>>
rtVars == <<autoWarm, instVars, sweepList, sbVars, poolVars, calls, started>>

VARIABLES
    \* ---- background tasks and PoolManager (scheduler/pool.rs) ----
    tasks,            \* which of the spawned loops still run: the pool's
                      \* health check and auto-scaler (health_check_handle,
                      \* auto_scaling_handle), the manager's cleanup task
    pmPools,          \* PoolManager.pools: function name -> the pool held
    pmObjects,        \* every FunctionPool a create_pool call has built
    pmCalls           \* per caller: its create_pool / remove_pool call

pmRest == <<pmPools, pmObjects, pmCalls>>
pmVars == <<tasks, pmRest>>

VARIABLES
    \* ---- RustCompiler (runtime/compiler.rs) ----
    libraryExt,        \* the platform's shared-library suffix
    compiledFunctions, \* compiled_functions: function name -> CompiledFunction
    cacheFiles,        \* the library files present in cache_dir
    tempDirs,          \* temp_dirs: how many work directories are kept
    compileCalls,      \* per caller: the compile_function call it is in
    artifacts          \* history: what the successful compile_function calls returned

ccVars == <<libraryExt, compiledFunctions, cacheFiles, tempDirs, compileCalls, artifacts>>

VARIABLES
    \* ---- LoadBalancer: what its callers have seen ----
    picks,             \* history: the ids select_target returned since the
                       \* eligible targets last changed
    keyPicks,          \* history: request key -> the ids select_target returned
                       \* for it since the membership last changed
    lastUpdate         \* history: the last update_target_status call on a
                       \* present target: its target as it was before, and
                       \* the is_healthy it passed

histVars == <<picks, keyPicks, lastUpdate>>

VARIABLES
    \* ---- LifecycleManager (scheduler/lifecycle.rs) ----
    lifecycles,        \* lifecycles: instance id -> current_phase
    cleanupQueue       \* the ids the cleanup task has drained from
                       \* cleanup_queue and has still to stop

lcVars == <<lifecycles, cleanupQueue>>

VARIABLES
    \* ---- LoadBalancer: add_target / remove_target calls in flight ----
    lbCalls            \* per caller: where its add_target / remove_target
                       \* call is (between its two lock sections)

\* everything but the load balancer / the runtime / the compiler
exceptLB == <<rtVars, pmVars, ccVars, histVars, lbCalls, lcVars>>
exceptRT == <<lbVars, pmVars, ccVars, histVars, lbCalls, lcVars>>
exceptCC == <<lbVars, rtVars, pmVars, histVars, lbCalls, lcVars>>
\* everything but the runtime and the background tasks / the pool manager
exceptTasks == <<lbVars, pmRest, ccVars, histVars, lbCalls, lcVars>>
exceptPM == <<lbVars, rtVars, tasks, ccVars, histVars, lbCalls, lcVars>>
\* everything but the load balancer and its calls in flight
exceptLBCalls == <<rtVars, pmVars, ccVars, histVars, lcVars>>
\* everything but the runtime and the lifecycle manager
exceptLC == <<lbVars, pmVars, ccVars, histVars, lbCalls>>

----------------------------------------------------------------------------
(* Bounds of the model *)

\* clock advances allowed (each by more than the recovery time)
MaxAdvances == 2
\* pseudo-random draws allowed under Random / WeightedRandom
MaxRandomDraws == 3
\* status updates allowed to a target beyond the failure threshold (cap on the
\* consecutive_failures / consecutive_successes counters)
ExtraUpdates == 0
\* instance ids create_instance can allocate
MaxInstanceIds == 3
\* calls of the public API the callers start, all callers together
MaxCalls == 3
\* create_instance calls among them
MaxCreateCalls == 1
\* calls of the pool's API (execute, scale_up, scale_down) the callers start
MaxPoolCalls == 2
\* compile_function calls the callers start
MaxCompileCalls == 3
\* select_target calls on an unchanged set of eligible targets
MaxPicks == 9
\* select_target calls with one key on an unchanged membership
MaxKeyPicks == 2
\* how far the pool's clock runs, in seconds
MaxPoolClock == 60
\* how many pools the create_pool calls build
MaxPools == 3

----------------------------------------------------------------------------
(* Program constants *)

\* FailoverConfig::default
DefaultFailureThreshold == 3
DefaultSuccessThreshold == 2
DefaultRecoverySecs == 60
\* update_consistent_hash_ring
VirtualNodesPerWeight == 3
MaxVirtualNodes == 300
\* select_random: linear congruential generator
LcgMultiplier == 1103515245
LcgIncrement == 12345
LcgMask == 2147483647
\* compile_function: work directories kept in temp_dirs
MaxTempDirs == 10

TargetIds == {"t1", "t2"}
Weights == {0, 1, 2}
\* the weights the breaker scenarios give the targets
BreakerWeights == {1}
RequestKeys == {"default", "k1", "k2"}

Strategies ==
    {"RoundRobin", "WeightedRoundRobin", "Random", "WeightedRandom",
     "LeastConnections", "WeightedLeastConnections", "LeastLoad",
     "FastestResponse", "ConsistentHash", "Adaptive"}

CircuitBreakerStates == {"Closed", "Open", "HalfOpen"}

\* (current_load in tenths, active_connections, avg_response_time_ms) as
\* passed to add_target / update_target_status
Metrics ==
    {[load |-> 2, conns |-> 3, rt |-> 40],
     [load |-> 8, conns |-> 0, rt |-> 60]}
\* the metrics of the scenarios in which they do not matter
HistoryMetrics == [load |-> 2, conns |-> 3, rt |-> 40]

----------------------------------------------------------------------------
(* Helpers *)

Min(a, b) == IF a < b THEN a ELSE b
Max(a, b) == IF a < b THEN b ELSE a

Range(s) == {s[i] : i \in 1..Len(s)}

RemoveFromSeq(s, x) == SelectSeq(s, LAMBDA e : e # x)

RECURSIVE SumSeq(_)
SumSeq(s) == IF s = <<>> THEN 0 ELSE Head(s) + SumSeq(Tail(s))

----------------------------------------------------------------------------
(* LoadBalancer: pure functions *)

\* format!("{id}:{i}") in update_consistent_hash_ring
VirtualKey(id, i) == id \o ":" \o ToString(i)

\* hash_key: DefaultHasher (SipHash-1-3, zero keys) over the key's bytes and
\* the 0xff terminator.  The 64-bit digests of the keys the model uses were
\* computed with that algorithm and are given by their rank in increasing
\* digest order (the ring only compares digests); e.g. "default" is
\* 0x4eb7ff81b5f63ce1 and "t1:3" is 0x5826cd8a4faef451.
HashTable ==
    ("t2:3" :> 1) @@ ("t1:2" :> 2) @@ ("t1:4" :> 3) @@ ("t2:4" :> 4) @@
    ("t3:0" :> 5) @@ ("t3:5" :> 6) @@ ("t3:4" :> 7) @@ ("t2:5" :> 8) @@
    ("t1:1" :> 9) @@ ("k2" :> 10) @@ ("default" :> 11) @@ ("t1:3" :> 12) @@
    ("t2:2" :> 13) @@ ("t3:2" :> 14) @@ ("t3:3" :> 15) @@ ("t3:1" :> 16) @@
    ("t2:1" :> 17) @@ ("t1:0" :> 18) @@ ("t1:5" :> 19) @@ ("k1" :> 20) @@
    ("t2:0" :> 21)

hash_key(key) == HashTable[key]

\* one that gives a target of weight 0 no virtual node
virtual_nodes_unclamped(weight) == Min(weight * VirtualNodesPerWeight, MaxVirtualNodes)

\* ((weight as usize).max(1) * 3).min(300)
virtual_nodes(weight) == Min(Max(weight, 1) * VirtualNodesPerWeight, MaxVirtualNodes)

\* sort_by_key(|(hash, _)| *hash) of a set of (hash, id) pairs with distinct hashes
RECURSIVE SortByHash(_)
SortByHash(S) ==
    IF S = {} THEN <<>>
    ELSE LET m == CHOOSE e \in S : \A f \in S : e[1] <= f[1]
         IN <<m>> \o SortByHash(S \ {m})

\* update_consistent_hash_ring: the ring rebuilt from a target map
BuildRing(tg) ==
    SortByHash(UNION {{<<hash_key(VirtualKey(id, i)), id>> :
                         i \in 0..(virtual_nodes(tg[id].weight) - 1)} :
                      id \in DOMAIN tg})

\* (seed.wrapping_mul(1103515245).wrapping_add(12345)) & 0x7fffffff, computed
\* modulo 2^31 on 16-bit limbs so that no intermediate exceeds 2^31 - 1
AddMod31(x, y) == IF y = 0 THEN x
                  ELSE IF x >= (LcgMask - y) + 1 THEN x - ((LcgMask - y) + 1)
                  ELSE x + y

MulMod31(a, b) ==
    LET ah == a \div 65536
        al == a % 65536
        bh == b \div 65536
        bl == b % 65536
        cross == ((((ah * bl) % 32768) + ((al * bh) % 32768)) % 32768) * 65536
        low_hi == ((al * (bl \div 256)) % 8388608) * 256
        low_lo == al * (bl % 256)
    IN AddMod31(AddMod31(cross, low_hi), low_lo)

NextSeed(seed) == AddMod31(MulMod31(seed, LcgMultiplier), LcgIncrement)

\* the filter of select_target: is_healthy && circuit_breaker_state == Closed
Eligible(t) == t.is_healthy /\ t.circuit_breaker_state = "Closed"

\* healthy_targets: the eligible ids in the map's iteration order
HealthyTargets(tg, order) == SelectSeq(order, LAMBDA id : Eligible(tg[id]))

\* Iterator::min_by / min_by_key: the first element with the least key
FirstMin(ids, Key(_)) ==
    LET i == CHOOSE i \in 1..Len(ids) :
                /\ \A j \in 1..Len(ids) : Key(ids[i]) <= Key(ids[j])
                /\ \A j \in 1..(i - 1) : Key(ids[j]) > Key(ids[i])
    IN ids[i]

\* the first element with the greatest key (a loop with a strict >)
FirstMax(ids, Key(_)) ==
    LET i == CHOOSE i \in 1..Len(ids) :
                /\ \A j \in 1..Len(ids) : Key(ids[i]) >= Key(ids[j])
                /\ \A j \in 1..(i - 1) : Key(ids[j]) < Key(ids[i])
    IN ids[i]

\* Iterator::min_by with a comparator: the first element no other is below
FirstMinBy(ids, LessEq(_, _)) ==
    LET i == CHOOSE i \in 1..Len(ids) :
                /\ \A j \in 1..Len(ids) : LessEq(ids[i], ids[j])
                /\ \A j \in 1..(i - 1) : ~LessEq(ids[j], ids[i])
    IN ids[i]

----------------------------------------------------------------------------
(* LoadBalancer: the selection strategies.  Each takes the eligible ids h  *)
(* (non-empty, in iteration order), the target map and the balancer state, *)
(* and gives [kind, val, st]: kind "Ok" with the chosen id, or "Panic"     *)
(* where the code panics; st is the balancer state left behind.            *)

Chosen(id, st) == [kind |-> "Ok", val |-> id, st |-> st]
Panicked(st) == [kind |-> "Panic", val |-> "panic", st |-> st]

\* round robin whose counter stands still
select_round_robin_stuck(h, tg, st) ==
    LET index == st.round_robin_counter % Len(h)
    IN Chosen(h[index + 1], st)

select_round_robin(h, tg, st) ==
    LET index == st.round_robin_counter % Len(h)
    IN Chosen(h[index + 1],
              [st EXCEPT !.round_robin_counter = (st.round_robin_counter + 1) % Len(h)])

\* weights after `entry(id).or_insert(-(weight))` and `*current_weight += weight`
WrrBumped(h, tg, w) ==
    [id \in DOMAIN w \cup Range(h) |->
        IF id \in Range(h)
        THEN (IF id \in DOMAIN w THEN w[id] ELSE 0 - tg[id].weight) + tg[id].weight
        ELSE w[id]]

select_weighted_round_robin(h, tg, st) ==
    LET bumped == WrrBumped(h, tg, st.weighted_round_robin_weights)
        total == SumSeq([i \in 1..Len(h) |-> tg[h[i]].weight])
        BumpedOf(id) == bumped[id]
        sel == FirstMax(h, BumpedOf)
    IN Chosen(sel,
              [st EXCEPT !.weighted_round_robin_weights =
                            [bumped EXCEPT ![sel] = bumped[sel] - total]])

select_random(h, tg, st) ==
    LET seed == NextSeed(st.random_seed)
    IN Chosen(h[(seed % Len(h)) + 1], [st EXCEPT !.random_seed = seed])

\* the cumulative-weight scan of select_weighted_random from position i
RECURSIVE WeightedScan(_, _, _, _)
WeightedScan(h, tg, i, rw) ==
    IF i > Len(h) THEN h[1]
    ELSE IF rw < tg[h[i]].weight THEN h[i]
    ELSE WeightedScan(h, tg, i + 1, rw - tg[h[i]].weight)

select_weighted_random(h, tg, st) ==
    LET total == SumSeq([i \in 1..Len(h) |-> tg[h[i]].weight])
        seed == NextSeed(st.random_seed)
        st2 == [st EXCEPT !.random_seed = seed]
    IN IF total = 0 THEN Panicked(st2)     \* `% total_weight` with a zero divisor
       ELSE Chosen(WeightedScan(h, tg, 1, seed % total), st2)

select_least_connections(h, tg, st) ==
    LET Conns(id) == tg[id].active_connections
    IN Chosen(FirstMin(h, Conns), st)

\* active_connections / weight as f64: 0/0 is NaN, c/0 is +inf
RatioIsNaN(t) == t.weight = 0 /\ t.active_connections = 0
RatioLessEq(a, b) ==
    IF b.weight = 0 THEN TRUE
    ELSE IF a.weight = 0 THEN FALSE
    ELSE a.active_connections * b.weight <= b.active_connections * a.weight

select_weighted_least_connections(h, tg, st) ==
    LET LessEq(x, y) == RatioLessEq(tg[x], tg[y])
    IN IF Len(h) >= 2 /\ \E i \in 1..Len(h) : RatioIsNaN(tg[h[i]])
       THEN Panicked(st)                   \* partial_cmp(..).unwrap() on NaN
       ELSE Chosen(FirstMinBy(h, LessEq), st)

select_least_load(h, tg, st) ==
    LET Load(id) == tg[id].current_load
    IN Chosen(FirstMin(h, Load), st)

select_fastest_response(h, tg, st) ==
    LET Rt(id) == tg[id].avg_response_time_ms
    IN Chosen(FirstMin(h, Rt), st)

\* the scan of the ring for the first entry with hash <= ring_hash
RingLookup(ring, hash) ==
    IF \E i \in 1..Len(ring) : hash <= ring[i][1]
    THEN ring[CHOOSE i \in 1..Len(ring) :
                 /\ hash <= ring[i][1]
                 /\ \A j \in 1..(i - 1) : ~(hash <= ring[j][1])][2]
    ELSE ring[1][2]

\* a hash lookup among the eligible targets in place of the ring
select_consistent_hash_by_healthy(h, tg, st, key) ==
    Chosen(h[(hash_key(key) % Len(h)) + 1], st)

select_consistent_hash(h, tg, st, key) ==
    LET ring == st.consistent_hash_ring
    IN IF ring = <<>> THEN Chosen(h[1], st)
       ELSE Chosen(RingLookup(ring, hash_key(key)), st)

\* 1.0 / (load.max(0.1) * rt.max(1.0) * conns.max(1.0)): the greatest score is
\* the least denominator (load is in tenths, so the floor 0.1 is 1)
AdaptiveDenominator(t) ==
    Max(t.current_load, 1) * Max(t.avg_response_time_ms, 1) * Max(t.active_connections, 1)

select_adaptive(h, tg, st) ==
    LET Den(id) == AdaptiveDenominator(tg[id])
    IN Chosen(FirstMin(h, Den), st)

SelectByStrategy(strat, h, tg, st, key) ==
    CASE strat = "RoundRobin" -> select_round_robin(h, tg, st)
      [] strat = "WeightedRoundRobin" -> select_weighted_round_robin(h, tg, st)
      [] strat = "Random" -> select_random(h, tg, st)
      [] strat = "WeightedRandom" -> select_weighted_random(h, tg, st)
      [] strat = "LeastConnections" -> select_least_connections(h, tg, st)
      [] strat = "WeightedLeastConnections" -> select_weighted_least_connections(h, tg, st)
      [] strat = "LeastLoad" -> select_least_load(h, tg, st)
      [] strat = "FastestResponse" -> select_fastest_response(h, tg, st)
      [] strat = "ConsistentHash" -> select_consistent_hash(h, tg, st, key)
      [] strat = "Adaptive" -> select_adaptive(h, tg, st)

\* select_target with the health filter forgotten: every target is a candidate
select_target_unfiltered(strat, tg, order, st, key) ==
    IF DOMAIN tg = {}
    THEN [kind |-> "Err", val |-> "No targets available", st |-> st]
    ELSE SelectByStrategy(strat, order, tg, st, key)

\* select_target: the result record [kind, val, st]
select_target(strat, tg, order, st, key) ==
    IF DOMAIN tg = {}
    THEN [kind |-> "Err", val |-> "No targets available", st |-> st]
    ELSE LET h == HealthyTargets(tg, order)
         IN IF h = <<>>
            THEN [kind |-> "Err", val |-> "No healthy targets available", st |-> st]
            ELSE SelectByStrategy(strat, h, tg, st, key)

----------------------------------------------------------------------------
(* LoadBalancer: circuit breaker and operations *)

\* update_circuit_breaker_state with the Closed comparison off by one (> for >=)
update_circuit_breaker_state_late(t, at, cfg) ==
    CASE t.circuit_breaker_state = "Closed" ->
            IF t.consecutive_failures > cfg.failure_threshold THEN "Open" ELSE "Closed"
      [] t.circuit_breaker_state = "Open" ->
            IF at - t.last_activity > cfg.circuit_breaker_recovery_secs
            THEN "HalfOpen" ELSE "Open"
      [] t.circuit_breaker_state = "HalfOpen" ->
            IF t.consecutive_successes >= cfg.success_threshold THEN "Closed"
            ELSE IF t.consecutive_failures > 0 THEN "Open"
            ELSE "HalfOpen"

\* update_circuit_breaker_state whose HalfOpen branch ignores failures
update_circuit_breaker_state_forgiving(t, at, cfg) ==
    CASE t.circuit_breaker_state = "Closed" ->
            IF t.consecutive_failures >= cfg.failure_threshold THEN "Open" ELSE "Closed"
      [] t.circuit_breaker_state = "Open" ->
            IF at - t.last_activity > cfg.circuit_breaker_recovery_secs
            THEN "HalfOpen" ELSE "Open"
      [] t.circuit_breaker_state = "HalfOpen" ->
            IF t.consecutive_successes >= cfg.success_threshold THEN "Closed"
            ELSE "HalfOpen"

\* update_circuit_breaker_state: the breaker state of target t at time `at`
\* under the failover configuration cfg
update_circuit_breaker_state(t, at, cfg) ==
    CASE t.circuit_breaker_state = "Closed" ->
            IF t.consecutive_failures >= cfg.failure_threshold THEN "Open" ELSE "Closed"
      [] t.circuit_breaker_state = "Open" ->
            \* last_activity.elapsed() > recovery
            IF at - t.last_activity > cfg.circuit_breaker_recovery_secs
            THEN "HalfOpen" ELSE "Open"
      [] t.circuit_breaker_state = "HalfOpen" ->
            IF t.consecutive_successes >= cfg.success_threshold THEN "Closed"
            ELSE IF t.consecutive_failures > 0 THEN "Open"
            ELSE "HalfOpen"

\* the body of update_target_status on a present target
UpdatedTarget(t, ok, m, at, cfg) ==
    LET t1 == [t EXCEPT !.is_healthy = ok,
                        !.current_load = m.load,
                        !.active_connections = m.conns,
                        !.avg_response_time_ms = m.rt,
                        !.last_activity = at,
                        !.consecutive_successes = IF ok THEN @ + 1 ELSE 0,
                        !.consecutive_failures = IF ok THEN 0 ELSE @ + 1]
    IN [t1 EXCEPT !.circuit_breaker_state = update_circuit_breaker_state(t1, at, cfg)]

\* a LoadBalanceTarget as the callers build it (create_test_target and the
\* unit tests): healthy, counters at zero, breaker Closed
NewTarget(w, m, at) ==
    [weight |-> w, current_load |-> m.load, active_connections |-> m.conns,
     avg_response_time_ms |-> m.rt, is_healthy |-> TRUE, last_activity |-> at,
     consecutive_failures |-> 0, consecutive_successes |-> 0,
     circuit_breaker_state |-> "Closed"]

\* no update_target_status call has been made on the targets as they are
NoUpdate == [id |-> "none", ok |-> FALSE, 
             before |-> NewTarget(0, [load |-> 0, conns |-> 0, rt |-> 0], 0)]

\* a sequence with x put at position i
InsertAt(s, i, x) == SubSeq(s, 1, i - 1) \o <<x>> \o SubSeq(s, i, Len(s))

AddTarget(id, w, m) ==
    /\ targets' = [x \in DOMAIN targets \cup {id} |->
                     IF x = id THEN NewTarget(w, m, now) ELSE targets[x]]
    /\ IF id \in DOMAIN targets
       THEN iterOrder' = iterOrder
       ELSE \E i \in 1..(Len(iterOrder) + 1) : iterOrder' = InsertAt(iterOrder, i, id)
    /\ lbState' = [lbState EXCEPT !.consistent_hash_ring = BuildRing(targets')]
    /\ lbResult' = [op |-> "add_target", kind |-> "Ok", val |-> "unit"]
    /\ failRun' = [x \in DOMAIN targets' |-> IF x = id THEN 0 ELSE failRun[x]]
    /\ UNCHANGED <<lbConfig, now, draws>>

RemoveTarget(id) ==
    /\ IF id \in DOMAIN targets
       THEN /\ targets' = [x \in DOMAIN targets \ {id} |-> targets[x]]
            /\ iterOrder' = RemoveFromSeq(iterOrder, id)
            /\ lbState' = [lbState EXCEPT !.consistent_hash_ring = BuildRing(targets')]
            /\ lbResult' = [op |-> "remove_target", kind |-> "Ok", val |-> "unit"]
            /\ failRun' = [x \in DOMAIN targets' |-> failRun[x]]
       ELSE /\ lbResult' = [op |-> "remove_target", kind |-> "Err", val |-> "Target not found"]
            /\ UNCHANGED <<targets, iterOrder, lbState, failRun>>
    /\ UNCHANGED <<lbConfig, now, draws>>

\* a caller that is not inside add_target or remove_target
IdleLBCall == [op |-> "none", pc |-> "idle", id |-> "none"]

\* add_target 309-313: the target is inserted under the targets write lock,
\* which is released before the ring is touched
AddTargetInsert(c, id, w, m) ==
    /\ lbCalls[c].pc = "idle"
    /\ targets' = [x \in DOMAIN targets \cup {id} |->
                     IF x = id THEN NewTarget(w, m, now) ELSE targets[x]]
    /\ IF id \in DOMAIN targets
       THEN iterOrder' = iterOrder
       ELSE \E i \in 1..(Len(iterOrder) + 1) : iterOrder' = InsertAt(iterOrder, i, id)
    /\ failRun' = [x \in DOMAIN targets' |-> IF x = id THEN 0 ELSE failRun[x]]
    /\ lbCalls' = [lbCalls EXCEPT ![c] = [op |-> "add_target", pc |-> "ring", id |-> id]]
    /\ UNCHANGED <<lbConfig, lbState, lbResult, now, draws>>

\* remove_target 324-333: the target is removed under the targets write
\* lock, which is dropped before the ring is touched; an unknown id is Err
RemoveTargetRemove(c, id) ==
    /\ lbCalls[c].pc = "idle"
    /\ IF id \in DOMAIN targets
       THEN /\ targets' = [x \in DOMAIN targets \ {id} |-> targets[x]]
            /\ iterOrder' = RemoveFromSeq(iterOrder, id)
            /\ failRun' = [x \in DOMAIN targets' |-> failRun[x]]
            /\ lbCalls' = [lbCalls EXCEPT
                              ![c] = [op |-> "remove_target", pc |-> "ring", id |-> id]]
            /\ UNCHANGED lbResult
       ELSE /\ lbResult' = [op |-> "remove_target", kind |-> "Err", val |-> "Target not found"]
            /\ lbCalls' = [lbCalls EXCEPT
                              ![c] = [op |-> "remove_target", pc |-> "idle", id |-> id]]
            /\ UNCHANGED <<targets, iterOrder, failRun>>
    /\ UNCHANGED <<lbConfig, lbState, now, draws>>

\* update_consistent_hash_ring 622-641, under the targets read lock and the
\* state write lock together; the call then returns Ok
UpdateConsistentHashRing(c) ==
    /\ lbCalls[c].pc = "ring"
    /\ lbState' = [lbState EXCEPT !.consistent_hash_ring = BuildRing(targets)]
    /\ lbResult' = [op |-> lbCalls[c].op, kind |-> "Ok", val |-> "unit"]
    /\ lbCalls' = [lbCalls EXCEPT ![c].pc = "idle"]
    /\ UNCHANGED <<lbConfig, targets, iterOrder, failRun, now, draws>>

\* add_target with a target the caller built itself (the fields of
\* LoadBalanceTarget are public, and get_targets hands out clones): the
\* breaker state and the counters are the caller's
AddTargetAsIs(id, cb, successes, failures) ==
    LET t == [NewTarget(1, HistoryMetrics, now) EXCEPT
                 !.circuit_breaker_state = cb,
                 !.consecutive_successes = successes,
                 !.consecutive_failures = failures]
    IN /\ targets' = [x \in DOMAIN targets \cup {id} |-> IF x = id THEN t ELSE targets[x]]
       /\ IF id \in DOMAIN targets
          THEN iterOrder' = iterOrder
          ELSE \E i \in 1..(Len(iterOrder) + 1) : iterOrder' = InsertAt(iterOrder, i, id)
       /\ lbState' = [lbState EXCEPT !.consistent_hash_ring = BuildRing(targets')]
       /\ lbResult' = [op |-> "add_target", kind |-> "Ok", val |-> "unit"]
       /\ failRun' = [x \in DOMAIN targets' |-> IF x = id THEN 0 ELSE failRun[x]]
       /\ UNCHANGED <<lbConfig, now, draws>>

\* the bound on the counters: the failure threshold plus ExtraUpdates
CounterCap == lbConfig.failure_threshold + ExtraUpdates

UpdateTargetStatus(id, ok, m) ==
    /\ IF id \in DOMAIN targets
       THEN /\ IF ok THEN targets[id].consecutive_successes < CounterCap
                     ELSE targets[id].consecutive_failures < CounterCap
            /\ targets' = [targets EXCEPT ![id] = UpdatedTarget(@, ok, m, now, lbConfig)]
            /\ lbResult' = [op |-> "update_target_status", kind |-> "Ok", val |-> "unit"]
            /\ failRun' = [failRun EXCEPT ![id] = IF ok THEN 0 ELSE @ + 1]
       ELSE /\ lbResult' = [op |-> "update_target_status", kind |-> "Err",
                            val |-> "Target not found"]
            /\ UNCHANGED <<targets, failRun>>
    /\ UNCHANGED <<lbConfig, iterOrder, lbState, now, draws>>

SelectTarget(key) ==
    LET r == select_target(lbConfig.strategy, targets, iterOrder, lbState, key)
        drew == r.st.random_seed # lbState.random_seed
    IN /\ drew => draws < MaxRandomDraws
       /\ draws' = IF drew THEN draws + 1 ELSE draws
       /\ lbState' = r.st
       /\ lbResult' = [op |-> "select_target", kind |-> r.kind, val |-> r.val]
       /\ UNCHANGED <<lbConfig, targets, iterOrder, now, failRun>>

\* time passes: longer than the breaker's recovery time
AdvanceClock ==
    /\ now < MaxAdvances * (lbConfig.circuit_breaker_recovery_secs + 1)
    /\ now' = now + lbConfig.circuit_breaker_recovery_secs + 1
    /\ UNCHANGED <<lbConfig, targets, iterOrder, lbState, lbResult, failRun, draws>>

----------------------------------------------------------------------------
(* Instance manager (runtime/instance.rs), sandbox executor                *)
(* (runtime/sandbox.rs), resource manager (runtime/resource.rs) and        *)
(* function pool (scheduler/pool.rs).                                      *)
(*                                                                         *)
(* The operations are async functions that take and release the maps'      *)
(* locks several times, so calls by different callers interleave between   *)
(* the lock sections.  A call is a record in `calls`: the operation, the   *)
(* position in its code (pc) and its local variables; every action below   *)
(* is one lock section (or a run of sections on data no other call can     *)
(* see) of the function named in its comment.                              *)

\* the concurrent callers (tasks) of the public API
Callers == {"c1", "c2"}
\* instance ids (scru128 ids, numbered in order of creation)
InstanceIds == 1..MaxInstanceIds
\* process ids the operating system hands out to the sandboxed children
Pids == {101, 102}
\* execute_instance starts and stops resource monitoring under process id 0
InstanceMonitorPid == 0

\* PoolConfig::default: the scaling thresholds (average current_load, in
\* hundredths) and cooldowns (seconds)
DefaultScaleUpThreshold == 80
DefaultScaleDownThreshold == 30
DefaultScaleUpCooldownSecs == 60
DefaultScaleDownCooldownSecs == 300

\* a PoolConfig with the default thresholds and cooldowns
PoolConfigOf(min, max, target) ==
    [min_instances |-> min, max_instances |-> max, target_instances |-> target,
     scale_up_threshold |-> DefaultScaleUpThreshold,
     scale_down_threshold |-> DefaultScaleDownThreshold,
     scale_up_cooldown_secs |-> DefaultScaleUpCooldownSecs,
     scale_down_cooldown_secs |-> DefaultScaleDownCooldownSecs]

\* the pool configurations of the pool scenarios
PoolConfigs == {PoolConfigOf(1, 2, 1), PoolConfigOf(1, 2, 2)}

\* Option<Instant>: None, and Some(at)
NoInstant == [set |-> FALSE, at |-> 0]
SomeInstant(at) == [set |-> TRUE, at |-> at]
\* the target_count arguments of scale_up and scale_down
ScaleTargets == 0..MaxInstanceIds

EmptyMap == [x \in {} |-> 0]
\* HashMap::insert and HashMap::remove
Put(f, k, v) == [x \in DOMAIN f \cup {k} |-> IF x = k THEN v ELSE f[x]]
Drop(f, k) == [x \in DOMAIN f \ {k} |-> f[x]]

\* a FunctionInstance as create_instance builds it, before compilation
NewInstance ==
    [state |-> "Creating", total_executions |-> 0,
     successful_executions |-> 0, failed_executions |-> 0]
NoInstance == [NewInstance EXCEPT !.state = "none"]

\* a caller that is not inside a call; `ret` and the locals keep what the
\* caller's last call returned until its next call starts
IdleCall ==
    [op |-> "none", pc |-> "idle", id |-> 0, inst |-> NoInstance,
     monitoring_started |-> FALSE, pid |-> 0, child |-> "none",
     timed_out |-> FALSE, over_memory |-> FALSE, status |-> "none", ret |-> "none",
     count |-> 0, done |-> 0, todo |-> <<>>]

\* a caller that is not inside a create_pool or remove_pool call
IdlePoolCall == [op |-> "none", pc |-> "idle", name |-> "none", pool |-> 0, ret |-> "none"]

\* a call of operation op that is about to run its first lock section
NewCall(op) == [IdleCall EXCEPT !.op = op]

\* the caller is free and may start another call
MayStart(c) == calls[c].pc = "idle" /\ started < MaxCalls
MayStartOnPool(c) == calls[c].pc = "idle" /\ started < MaxPoolCalls

\* the call returns result to its caller: of the locals only what the call
\* hands back (and the fate of its child process) is kept
Return(r, result) ==
    [IdleCall EXCEPT !.op = r.op, !.id = r.id, !.ret = result, !.status = r.status,
                     !.child = r.child, !.timed_out = r.timed_out,
                     !.over_memory = r.over_memory, !.done = r.done]

\* emit_lifecycle_event: the event is pushed on the history
Emit(id, kind) == [lifecycleEvents EXCEPT ![id] = Append(@, kind)]

\* ---- where a nested call returns to ----

\* create_instance returns: to the caller, or into the loop of scale_up
\* (which inserts the instance on Ok and breaks on Err), or into
\* LifecycleManager::create_instance, which passes an error on
AfterCreate(r, result) ==
    IF r.op = "scale_up"
    THEN [r EXCEPT !.pc = IF result = "Ok" THEN "s_insert" ELSE "s_finish"]
    ELSE IF r.op = "lifecycle_create" /\ result = "Ok"
    THEN [r EXCEPT !.pc = "l_insert"]
    ELSE Return(r, result)

\* warm_instance returns: to the caller, or into create_instance, which
\* passes an error on (`?`) and otherwise returns Ok(instance_id)
AfterWarm(r, result) ==
    IF r.op = "warm_instance" THEN Return(r, result) ELSE AfterCreate(r, result)

\* execute_instance returns: to the caller, or into FunctionPool::execute,
\* which releases the connection before it returns the result
AfterExecute(r, result) ==
    IF r.op = "pool_execute"
    THEN [r EXCEPT !.pc = "p_release", !.ret = result]
    ELSE Return(r, result)

\* the call's todo list without its head; the loop of scale_down is over
\* when the list is empty
NextToStop(r) ==
    [r EXCEPT !.todo = Tail(@), !.pc = IF Len(r.todo) > 1 THEN "d_stop" ELSE "d_finish"]

\* stop_instance returns: to the caller, or into the loop of scale_down
\* (which removes the instance from the pool on Ok and goes on on Err)
\* or into the loops of FunctionPool::stop and InstanceManager::cleanup,
\* which go on to the next instance whatever the result, or into
\* LifecycleManager::terminate_instance, which passes an error on
AfterStop(r, result) ==
    IF r.op = "scale_down"
    THEN IF result = "Ok" THEN [r EXCEPT !.pc = "d_remove"] ELSE NextToStop(r)
    ELSE IF r.op = "pool_stop"
    THEN [r EXCEPT !.todo = Tail(@), !.pc = IF Len(r.todo) > 1 THEN "o_stop" ELSE "o_clear"]
    ELSE IF r.op = "cleanup"
    THEN [r EXCEPT !.todo = Tail(@), !.pc = IF Len(r.todo) > 1 THEN "i_stop" ELSE "i_finish"]
    ELSE IF r.op = "lifecycle_terminate" /\ result = "Ok"
    THEN [r EXCEPT !.pc = "l_terminated"]
    ELSE Return(r, result)

----------------------------------------------------------------------------
(* InstanceManager::create_instance *)

\* lines 222-270: the id is allocated, the Created event is emitted and the
\* function is compiled (Ready) or fails to compile (Error)
create_begin(c, r, compiled) ==
    /\ nextInstanceId <= MaxInstanceIds
    /\ nextInstanceId' = nextInstanceId + 1
    /\ lifecycleEvents' = Emit(nextInstanceId, "Created")
    /\ calls' = [calls EXCEPT ![c] =
                   [r EXCEPT !.pc = "c_insert", !.id = nextInstanceId,
                             !.inst = [NewInstance EXCEPT
                                         !.state = IF compiled THEN "Ready" ELSE "Error"]]]

CreateInstance(c, compiled) ==
    /\ MayStart(c)
    /\ nextInstanceId <= MaxCreateCalls
    /\ started' = started + 1
    /\ create_begin(c, NewCall("create_instance"), compiled)
    /\ UNCHANGED <<autoWarm, activeInstances, sweepList, sbVars, poolVars>>

\* lines 275-293: the instance is registered; with enable_auto_warm the call
\* goes on into warm_instance
CreateRegister(c) ==
    LET r == calls[c] IN
    /\ r.pc = "c_insert"
    /\ activeInstances' = Put(activeInstances, r.id, r.inst)
    /\ calls' = [calls EXCEPT ![c] =
                   IF autoWarm THEN [r EXCEPT !.pc = "w_read"] ELSE AfterCreate(r, "Ok")]
    /\ UNCHANGED <<autoWarm, lifecycleEvents, nextInstanceId, sweepList, started,
                   sbVars, poolVars>>

----------------------------------------------------------------------------
(* InstanceManager::warm_instance *)

\* lines 300-326: the instance is cloned out of the map; unless the clone is
\* Ready the call fails, otherwise WarmingStarted is emitted
warm_begin(c, r, id) ==
    IF id \notin DOMAIN activeInstances
    THEN /\ calls' = [calls EXCEPT ![c] = AfterWarm([r EXCEPT !.id = id], "NotFound")]
         /\ UNCHANGED lifecycleEvents
    ELSE LET clone == activeInstances[id] IN
         IF clone.state # "Ready"
         THEN /\ calls' = [calls EXCEPT ![c] =
                             AfterWarm([r EXCEPT !.id = id, !.inst = clone],
                                       "NotReadyForWarming")]
              /\ UNCHANGED lifecycleEvents
         ELSE /\ calls' = [calls EXCEPT ![c] =
                             [r EXCEPT !.id = id, !.inst = clone, !.pc = "w_set"]]
              /\ lifecycleEvents' = Emit(id, "WarmingStarted")

WarmInstance(c, id) ==
    /\ MayStart(c)
    /\ started' = started + 1
    /\ warm_begin(c, NewCall("warm_instance"), id)
    /\ UNCHANGED <<autoWarm, activeInstances, nextInstanceId, sweepList, sbVars, poolVars>>

\* create_instance line 292
CreateAutoWarm(c) ==
    /\ calls[c].pc = "w_read"
    /\ warm_begin(c, calls[c], calls[c].id)
    /\ UNCHANGED <<autoWarm, activeInstances, nextInstanceId, sweepList, started,
                   sbVars, poolVars>>

\* lines 329-330: the clone, now Warming, is written back
WarmSetWarming(c) ==
    LET r == calls[c]
        inst == [r.inst EXCEPT !.state = "Warming"]
    IN /\ r.pc = "w_set"
       /\ activeInstances' = Put(activeInstances, r.id, inst)
       /\ calls' = [calls EXCEPT ![c] = [r EXCEPT !.inst = inst, !.pc = "w_done"]]
       /\ UNCHANGED <<autoWarm, lifecycleEvents, nextInstanceId, sweepList, started,
                      sbVars, poolVars>>

\* lines 333-368: perform_warm_up (which cannot fail) is over,
\* WarmingCompleted is emitted and the clone, now Ready, is written back
WarmComplete(c) ==
    LET r == calls[c]
        inst == [r.inst EXCEPT !.state = "Ready"]
    IN /\ r.pc = "w_done"
       /\ lifecycleEvents' = Emit(r.id, "WarmingCompleted")
       /\ activeInstances' = Put(activeInstances, r.id, inst)
       /\ calls' = [calls EXCEPT ![c] = AfterWarm([r EXCEPT !.inst = inst], "Ok")]
       /\ UNCHANGED <<autoWarm, nextInstanceId, sweepList, started, sbVars, poolVars>>

----------------------------------------------------------------------------
(* InstanceManager::execute_instance, with SandboxExecutor::execute_in_process *)

\* a phase check that would let a Running instance through as well
ReadyForExecution_lax(state) == state \in {"Ready", "Idle", "Running"}

\* line 389: the phases execute_instance accepts
ReadyForExecution(state) == state \in {"Ready", "Idle"}

\* lines 380-405: the instance is cloned out of the map; a clone that is not
\* Ready or Idle ends the call with the not-ready error, otherwise
\* ExecutionStarted is emitted
execute_begin(c, r, id) ==
    IF id \notin DOMAIN activeInstances
    THEN /\ calls' = [calls EXCEPT ![c] = AfterExecute([r EXCEPT !.id = id], "NotFound")]
         /\ UNCHANGED lifecycleEvents
    ELSE LET clone == activeInstances[id] IN
         IF ~ReadyForExecution(clone.state)
         THEN /\ calls' = [calls EXCEPT ![c] =
                             AfterExecute([r EXCEPT !.id = id, !.inst = clone], "NotReady")]
              /\ UNCHANGED lifecycleEvents
         ELSE /\ calls' = [calls EXCEPT ![c] =
                             [r EXCEPT !.id = id, !.inst = clone, !.pc = "x_running"]]
              /\ lifecycleEvents' = Emit(id, "ExecutionStarted")

ExecuteInstance(c, id) ==
    /\ MayStart(c)
    /\ started' = started + 1
    /\ execute_begin(c, NewCall("execute_instance"), id)
    /\ UNCHANGED <<autoWarm, activeInstances, nextInstanceId, sweepList, sbVars, poolVars>>

\* lines 408-410: the clone, now Running, is written back
ExecuteSetRunning(c) ==
    LET r == calls[c]
        inst == [r.inst EXCEPT !.state = "Running"]
    IN /\ r.pc = "x_running"
       /\ activeInstances' = Put(activeInstances, r.id, inst)
       /\ calls' = [calls EXCEPT ![c] = [r EXCEPT !.inst = inst, !.pc = "x_monitor"]]
       /\ UNCHANGED <<autoWarm, lifecycleEvents, nextInstanceId, sweepList, started,
                      sbVars, poolVars>>

\* ResourceManager::start_monitoring (resource.rs 539-558): the monitor is
\* inserted under the process id, replacing one that is there
start_monitoring(monitors, pid, owner) == Put(monitors, pid, [owner |-> owner])

\* ResourceManager::stop_monitoring (resource.rs 561-570)
stop_monitoring(monitors, pid) == Drop(monitors, pid)

\* how many monitors of the process have their samplers running
SamplerSets(running, pid) == IF pid \in DOMAIN running THEN running[pid] ELSE 0

\* ProcessResourceMonitor::start_monitoring (resource.rs 229-249), called by
\* ResourceManager::start_monitoring on the monitor it has just made: the
\* monitor's is_monitoring is set and one sampler task per enabled limit
\* is spawned
samplers_started(running, pid) == Put(running, pid, SamplerSets(running, pid) + 1)

\* ProcessResourceMonitor::stop_monitoring (resource.rs 252-266), called by
\* ResourceManager::stop_monitoring on the monitor it has taken out of the
\* map (if there is one): is_monitoring is cleared and that monitor's
\* samplers leave their loops
samplers_stopped(running, monitors, pid) ==
    IF pid \in DOMAIN monitors
    THEN Put(running, pid, SamplerSets(running, pid) - 1)
    ELSE running

\* lines 413-420: resource monitoring starts under process id 0, unless the
\* instance's quota name is unknown to the resource manager
ExecuteStartMonitoring(c, quota_found) ==
    LET r == calls[c] IN
    /\ r.pc = "x_monitor"
    /\ activeMonitors' = IF quota_found
                         THEN start_monitoring(activeMonitors, InstanceMonitorPid, c)
                         ELSE activeMonitors
    /\ samplers' = IF quota_found
                   THEN samplers_started(samplers, InstanceMonitorPid)
                   ELSE samplers
    /\ calls' = [calls EXCEPT ![c] =
                   [r EXCEPT !.monitoring_started = quota_found, !.pc = "x_spawn"]]
    /\ UNCHANGED <<autoWarm, instVars, sweepList, started, activeProcesses, poolVars>>

\* the process ids the operating system can give a new child: those of no
\* child that is still running
FreePids == {p \in Pids : \A c \in Callers : ~(calls[c].child = "running" /\ calls[c].pid = p)}

\* SandboxExecutor::register_process_monitor (sandbox.rs 539-552)
register_process_monitor(processes, pid, owner) ==
    Put(processes, pid, [is_running |-> TRUE, owner |-> owner])

\* an unregister that would leave the entry in the map
unregister_process_monitor_leak(processes, pid) == processes

\* SandboxExecutor::unregister_process_monitor (sandbox.rs 555-559)
unregister_process_monitor(processes, pid) == Drop(processes, pid)

\* sandbox.rs 161-214: the work directory is set up (a failure ends
\* execute_in_process with Err before there is a child), the child is
\* spawned and its process monitor registered
SandboxSpawn(c, setup_ok, pid) ==
    LET r == calls[c] IN
    /\ r.pc = "x_spawn"
    /\ IF setup_ok
       THEN /\ pid \in FreePids
            /\ activeProcesses' = register_process_monitor(activeProcesses, pid, c)
            /\ calls' = [calls EXCEPT ![c] =
                           [r EXCEPT !.pid = pid, !.child = "running", !.pc = "x_wait"]]
       ELSE /\ calls' = [calls EXCEPT ![c] = [r EXCEPT !.status = "Err", !.pc = "x_stop"]]
            /\ UNCHANGED activeProcesses
    /\ UNCHANGED <<autoWarm, instVars, sweepList, started, activeMonitors, samplers, poolVars>>

\* sandbox.rs 644-689: the child exits before the deadline; its exit status
\* makes the result Completed or Failed
SandboxChildExit(c, success) ==
    LET r == calls[c] IN
    /\ r.pc = "x_wait"
    /\ calls' = [calls EXCEPT ![c] =
                   [r EXCEPT !.child = "exited",
                             !.status = IF success THEN "Completed" ELSE "Failed",
                             !.pc = "x_unregister"]]
    /\ UNCHANGED <<autoWarm, instVars, sweepList, started, sbVars, poolVars>>

\* the monitor task of monitor_process_execution (sandbox.rs 569-635), on
\* a sample of the running child that is above max_memory_mb: the process
\* monitor is marked as not running and the task ends with an error that
\* nothing reads; the wait for the child (638-642) goes on.  over_memory
\* keeps for the call that such a sample was taken
SandboxOverMemory(c) ==
    LET r == calls[c] IN
    /\ r.pc = "x_wait"
    /\ r.pid \in DOMAIN activeProcesses
    /\ activeProcesses[r.pid].is_running
    /\ activeProcesses' = [activeProcesses EXCEPT ![r.pid].is_running = FALSE]
    /\ calls' = [calls EXCEPT ![c] = [r EXCEPT !.over_memory = TRUE]]
    /\ UNCHANGED <<autoWarm, instVars, sweepList, started, activeMonitors, samplers, poolVars>>

\* sandbox.rs 217-219: the deadline passes while the child is still running;
\* the wait is dropped
SandboxTimeout(c) ==
    LET r == calls[c] IN
    /\ r.pc = "x_wait"
    /\ calls' = [calls EXCEPT ![c] = [r EXCEPT !.timed_out = TRUE, !.pc = "x_unregister"]]
    /\ UNCHANGED <<autoWarm, instVars, sweepList, started, sbVars, poolVars>>

\* sandbox.rs 222
SandboxUnregister(c) ==
    LET r == calls[c] IN
    /\ r.pc = "x_unregister"
    /\ activeProcesses' = unregister_process_monitor(activeProcesses, r.pid)
    /\ calls' = [calls EXCEPT ![c] =
                   [r EXCEPT !.pc = IF r.timed_out THEN "x_kill" ELSE "x_stop"]]
    /\ UNCHANGED <<autoWarm, instVars, sweepList, started, activeMonitors, samplers, poolVars>>

\* SandboxExecutor::kill_process (sandbox.rs 692-733): SIGTERM, SIGKILL, and
\* a monitor registered under the pid is marked as not running
kill_process(processes, pid) ==
    [p \in DOMAIN processes |->
        IF p = pid THEN [processes[p] EXCEPT !.is_running = FALSE] ELSE processes[p]]

\* sandbox.rs 237-250: after a timeout the child is killed and the result
\* is built
SandboxKill(c) ==
    LET r == calls[c] IN
    /\ r.pc = "x_kill"
    /\ activeProcesses' = kill_process(activeProcesses, r.pid)
    /\ calls' = [calls EXCEPT ![c] =
                   [r EXCEPT !.child = "killed", !.status = "Failed", !.pc = "x_stop"]]
    /\ UNCHANGED <<autoWarm, instVars, sweepList, started, activeMonitors, samplers, poolVars>>

\* lines 432-440: resource monitoring under process id 0 is stopped
ExecuteStopMonitoring(c) ==
    LET r == calls[c] IN
    /\ r.pc = "x_stop"
    /\ activeMonitors' = IF r.monitoring_started
                         THEN stop_monitoring(activeMonitors, InstanceMonitorPid)
                         ELSE activeMonitors
    /\ samplers' = IF r.monitoring_started
                   THEN samplers_stopped(samplers, activeMonitors, InstanceMonitorPid)
                   ELSE samplers
    /\ calls' = [calls EXCEPT ![c] = [r EXCEPT !.pc = "x_record"]]
    /\ UNCHANGED <<autoWarm, instVars, sweepList, started, activeProcesses, poolVars>>

\* InstanceManager::update_execution_stats (648-703), on the instance in the map
update_execution_stats(inst, status) ==
    [inst EXCEPT !.total_executions = @ + 1,
                 !.successful_executions = IF status = "Completed" THEN @ + 1 ELSE @,
                 !.failed_executions = IF status = "Completed" THEN @ ELSE @ + 1]

\* lines 443-487: a sandbox result is counted in the statistics of the
\* instance in the map and ExecutionCompleted is emitted; a sandbox error
\* emits ExecutionFailed and makes the response Failed
ExecuteRecord(c) ==
    LET r == calls[c] IN
    /\ r.pc = "x_record"
    /\ IF r.status = "Err"
       THEN /\ lifecycleEvents' = Emit(r.id, "ExecutionFailed")
            /\ calls' = [calls EXCEPT ![c] = [r EXCEPT !.status = "Failed", !.pc = "x_return"]]
            /\ UNCHANGED activeInstances
       ELSE /\ activeInstances' =
                  IF r.id \in DOMAIN activeInstances
                  THEN [activeInstances EXCEPT ![r.id] = update_execution_stats(@, r.status)]
                  ELSE activeInstances
            /\ lifecycleEvents' = Emit(r.id, "ExecutionCompleted")
            /\ calls' = [calls EXCEPT ![c] = [r EXCEPT !.pc = "x_return"]]
    /\ UNCHANGED <<autoWarm, nextInstanceId, sweepList, started, sbVars, poolVars>>

\* a return that would leave the clone's phase (Running) as it is
after_execution_unchanged(inst) == inst

\* lines 490-491: the phase execute_instance leaves the instance in
after_execution(inst) == [inst EXCEPT !.state = "Idle"]

\* lines 490-494: the clone taken at the start, now Idle, is written back
\* and the response is returned
ExecuteReturn(c) ==
    LET r == calls[c]
        inst == after_execution(r.inst)
    IN /\ r.pc = "x_return"
       /\ activeInstances' = Put(activeInstances, r.id, inst)
       /\ calls' = [calls EXCEPT ![c] = AfterExecute([r EXCEPT !.inst = inst], "Ok")]
       /\ UNCHANGED <<autoWarm, lifecycleEvents, nextInstanceId, sweepList, started,
                      sbVars, poolVars>>

----------------------------------------------------------------------------
(* InstanceManager::stop_instance and the cleanup task *)

\* lines 499-517: the instance is cloned out of the map and Stopped is emitted
stop_begin(c, r, id) ==
    IF id \notin DOMAIN activeInstances
    THEN /\ calls' = [calls EXCEPT ![c] = AfterStop([r EXCEPT !.id = id], "NotFound")]
         /\ UNCHANGED lifecycleEvents
    ELSE /\ calls' = [calls EXCEPT ![c] =
                        [r EXCEPT !.id = id, !.inst = activeInstances[id], !.pc = "t_set"]]
         /\ lifecycleEvents' = Emit(id, "Stopped")

StopInstance(c, id) ==
    /\ MayStart(c)
    /\ started' = started + 1
    /\ stop_begin(c, NewCall("stop_instance"), id)
    /\ UNCHANGED <<autoWarm, activeInstances, nextInstanceId, sweepList, sbVars, poolVars>>

\* lines 525-526: the clone, now Stopped, is written back
StopSetStopped(c) ==
    LET r == calls[c]
        inst == [r.inst EXCEPT !.state = "Stopped"]
    IN /\ r.pc = "t_set"
       /\ activeInstances' = Put(activeInstances, r.id, inst)
       /\ calls' = [calls EXCEPT ![c] = [r EXCEPT !.inst = inst, !.pc = "t_remove"]]
       /\ UNCHANGED <<autoWarm, lifecycleEvents, nextInstanceId, sweepList, started,
                      sbVars, poolVars>>

\* lines 529-545: the instance is removed from the map
StopRemove(c) ==
    LET r == calls[c] IN
    /\ r.pc = "t_remove"
    /\ activeInstances' = Drop(activeInstances, r.id)
    /\ calls' = [calls EXCEPT ![c] = AfterStop(r, "Ok")]
    /\ UNCHANGED <<autoWarm, lifecycleEvents, nextInstanceId, sweepList, started,
                   sbVars, poolVars>>

\* the instances a sweep may find idle for longer than max_idle_duration
IdleInstances == {id \in DOMAIN activeInstances : activeInstances[id].state = "Idle"}

\* start_cleanup_task, lines 745-757: a tick collects expired Idle instances
CleanupCollect(ids) ==
    /\ sweepList = {}
    /\ ids # {}
    /\ ids \subseteq IdleInstances
    /\ sweepList' = ids
    /\ UNCHANGED <<autoWarm, instVars, calls, started, sbVars, poolVars>>

\* start_cleanup_task, lines 759-790: a collected instance that is still in
\* the map is removed from it
CleanupRemove(id) ==
    /\ id \in sweepList
    /\ sweepList' = sweepList \ {id}
    /\ activeInstances' = Drop(activeInstances, id)
    /\ UNCHANGED <<autoWarm, lifecycleEvents, nextInstanceId, calls, started,
                   sbVars, poolVars>>

----------------------------------------------------------------------------
(* FunctionPool (scheduler/pool.rs) *)

\* a PoolInstance as initialize and scale_up insert it; current_load is
\* active_connections / 10 (update_instance_load)
NewPoolInstance == [is_healthy |-> TRUE, active_connections |-> 0]

\* a filter that lets every instance of the pool through
HealthyInstances_any == DOMAIN poolInstances

\* select_instance 325-328 (and the auto-scaler 706-709): the instances
\* that are marked healthy
HealthyInstances == {id \in DOMAIN poolInstances : poolInstances[id].is_healthy}

\* healthy_count
HealthyCount == Cardinality(HealthyInstances)

\* pool.rs 292-296 with select_instance (318-347): a healthy instance is
\* selected; the strategies index into the HashMap's iteration order, so
\* any healthy instance can be the one
PoolExecute(c) ==
    LET r == NewCall("pool_execute") IN
    /\ MayStartOnPool(c)
    /\ started' = started + 1
    /\ IF DOMAIN poolInstances = {}
       THEN calls' = [calls EXCEPT ![c] = Return(r, "NoInstances")]
       ELSE IF HealthyInstances = {}
            THEN calls' = [calls EXCEPT ![c] = Return(r, "NoHealthyInstances")]
            ELSE \E id \in HealthyInstances :
                    calls' = [calls EXCEPT ![c] = [r EXCEPT !.id = id, !.pc = "p_acquire"]]
    /\ UNCHANGED <<autoWarm, instVars, sweepList, sbVars, poolVars>>

\* a release that leaves the connection count as it is
update_instance_load_leaky(instances, id, increment) ==
    IF id \in DOMAIN instances /\ increment
    THEN [instances EXCEPT ![id].active_connections = @ + 1]
    ELSE instances

\* update_instance_load (402-415)
update_instance_load(instances, id, increment) ==
    IF id \in DOMAIN instances
    THEN [instances EXCEPT ![id].active_connections =
            IF increment THEN @ + 1 ELSE Max(@ - 1, 0)]
    ELSE instances

\* pool.rs 299
PoolAcquire(c) ==
    LET r == calls[c] IN
    /\ r.pc = "p_acquire"
    /\ poolInstances' = update_instance_load(poolInstances, r.id, TRUE)
    /\ calls' = [calls EXCEPT ![c] = [r EXCEPT !.pc = "p_execute"]]
    /\ UNCHANGED <<autoWarm, instVars, sweepList, started, sbVars, poolConfig, poolState, scaleVars>>

\* pool.rs 302-305: the call goes into InstanceManager::execute_instance
PoolExecuteInstance(c) ==
    /\ calls[c].pc = "p_execute"
    /\ execute_begin(c, calls[c], calls[c].id)
    /\ UNCHANGED <<autoWarm, activeInstances, nextInstanceId, sweepList, started,
                   sbVars, poolVars>>

\* pool.rs 308-314
PoolRelease(c) ==
    LET r == calls[c] IN
    /\ r.pc = "p_release"
    /\ poolInstances' = update_instance_load(poolInstances, r.id, FALSE)
    /\ calls' = [calls EXCEPT ![c] = Return(r, r.ret)]
    /\ UNCHANGED <<autoWarm, instVars, sweepList, started, sbVars, poolConfig, poolState, scaleVars>>

\* scale_up 434-446: the instance count is read and the number to add is
\* computed; max_instances - current_count is a u32 subtraction, which on
\* underflow panics (debug build) or wraps to a huge number (release build)
ScaleUp(c, target_count) ==
    LET r == NewCall("scale_up")
        current_count == Cardinality(DOMAIN poolInstances)
        add_count == target_count - current_count
        actual_add == Min(add_count, poolConfig.max_instances - current_count)
    IN /\ MayStartOnPool(c)
       /\ started' = started + 1
       /\ IF target_count <= current_count
          THEN calls' = [calls EXCEPT ![c] = Return(r, "Ok")]
          ELSE IF poolConfig.max_instances < current_count
               THEN \/ calls' = [calls EXCEPT ![c] = Return(r, "Panic")]
                    \/ calls' = [calls EXCEPT ![c] =
                                   [r EXCEPT !.count = add_count, !.pc = "s_state"]]
               ELSE IF actual_add = 0
                    THEN calls' = [calls EXCEPT ![c] = Return(r, "Ok")]
                    ELSE calls' = [calls EXCEPT ![c] =
                                     [r EXCEPT !.count = actual_add, !.pc = "s_state"]]
       /\ UNCHANGED <<autoWarm, instVars, sweepList, sbVars, poolVars>>

\* scale_up 456-459
ScaleUpSetState(c) ==
    /\ calls[c].pc = "s_state"
    /\ poolState' = "ScalingUp"
    /\ calls' = [calls EXCEPT ![c].pc = "s_create"]
    /\ UNCHANGED <<autoWarm, instVars, sweepList, started, sbVars, poolConfig, poolInstances,
                   scaleVars>>

\* scale_up 462-470: the loop goes into InstanceManager::create_instance
ScaleUpCreate(c, compiled) ==
    /\ calls[c].pc = "s_create"
    /\ create_begin(c, calls[c], compiled)
    /\ UNCHANGED <<autoWarm, activeInstances, sweepList, started, sbVars, poolVars>>

\* scale_up 471-485: the created instance is inserted into the pool
ScaleUpInsert(c) ==
    LET r == calls[c] IN
    /\ r.pc = "s_insert"
    /\ poolInstances' = Put(poolInstances, r.id, NewPoolInstance)
    /\ calls' = [calls EXCEPT ![c] =
                   [r EXCEPT !.count = @ - 1, !.done = @ + 1,
                             !.pc = IF r.count > 1 THEN "s_create" ELSE "s_finish"]]
    /\ UNCHANGED <<autoWarm, instVars, sweepList, started, sbVars, poolConfig, poolState, scaleVars>>

\* scale_up 493-520: the pool is Running again and Ok(created_count) returned
ScaleUpFinish(c) ==
    /\ calls[c].pc = "s_finish"
    /\ lastScaleUp' = SomeInstant(poolNow)
    /\ poolState' = "Running"
    /\ calls' = [calls EXCEPT ![c] = Return(calls[c], "Ok")]
    /\ UNCHANGED <<autoWarm, instVars, sweepList, started, sbVars, poolConfig, poolInstances,
                   poolNow, lastScaleDown, scalerLog>>

\* scale_down 525-537: as scale_up, with current_count - min_instances
ScaleDown(c, target_count) ==
    LET r == NewCall("scale_down")
        current_count == Cardinality(DOMAIN poolInstances)
        remove_count == current_count - target_count
        actual_remove == Min(remove_count, current_count - poolConfig.min_instances)
    IN /\ MayStartOnPool(c)
       /\ started' = started + 1
       /\ IF target_count >= current_count
          THEN calls' = [calls EXCEPT ![c] = Return(r, "Ok")]
          ELSE IF current_count < poolConfig.min_instances
               THEN \/ calls' = [calls EXCEPT ![c] = Return(r, "Panic")]
                    \/ calls' = [calls EXCEPT ![c] =
                                   [r EXCEPT !.count = remove_count, !.pc = "d_state"]]
               ELSE IF actual_remove = 0
                    THEN calls' = [calls EXCEPT ![c] = Return(r, "Ok")]
                    ELSE calls' = [calls EXCEPT ![c] =
                                     [r EXCEPT !.count = actual_remove, !.pc = "d_state"]]
       /\ UNCHANGED <<autoWarm, instVars, sweepList, sbVars, poolVars>>

\* scale_down 547-550
ScaleDownSetState(c) ==
    /\ calls[c].pc = "d_state"
    /\ poolState' = "ScalingDown"
    /\ calls' = [calls EXCEPT ![c].pc = "d_pick"]
    /\ UNCHANGED <<autoWarm, instVars, sweepList, started, sbVars, poolConfig, poolInstances,
                   scaleVars>>

\* the orders a sort by current_load can leave the pool's instances in
\* (the HashMap's iteration order decides between equal loads)
LoadOrders(instances) ==
    {s \in [1..Cardinality(DOMAIN instances) -> DOMAIN instances] :
        \A i, j \in DOMAIN s :
            i < j => /\ s[i] # s[j]
                     /\ instances[s[i]].active_connections
                          <= instances[s[j]].active_connections}

\* scale_down 553-564: the actual_remove instances of lowest load are chosen
ScaleDownPick(c, order) ==
    LET r == calls[c]
        picked == SubSeq(order, 1, Min(r.count, Len(order)))
    IN /\ r.pc = "d_pick"
       /\ order \in LoadOrders(poolInstances)
       /\ calls' = [calls EXCEPT ![c] =
                      [r EXCEPT !.todo = picked,
                                !.pc = IF picked = <<>> THEN "d_finish" ELSE "d_stop"]]
       /\ UNCHANGED <<autoWarm, instVars, sweepList, started, sbVars, poolVars>>

\* scale_down 567-568: the loop goes into InstanceManager::stop_instance
ScaleDownStop(c) ==
    /\ calls[c].pc = "d_stop"
    /\ stop_begin(c, calls[c], Head(calls[c].todo))
    /\ UNCHANGED <<autoWarm, activeInstances, nextInstanceId, sweepList, started,
                   sbVars, poolVars>>

\* scale_down 569-573: the stopped instance is removed from the pool
ScaleDownRemove(c) ==
    LET r == calls[c] IN
    /\ r.pc = "d_remove"
    /\ poolInstances' = Drop(poolInstances, Head(r.todo))
    /\ calls' = [calls EXCEPT ![c] = NextToStop([r EXCEPT !.done = @ + 1])]
    /\ UNCHANGED <<autoWarm, instVars, sweepList, started, sbVars, poolConfig, poolState, scaleVars>>

\* scale_down 581-607
ScaleDownFinish(c) ==
    /\ calls[c].pc = "d_finish"
    /\ lastScaleDown' = SomeInstant(poolNow)
    /\ poolState' = "Running"
    /\ calls' = [calls EXCEPT ![c] = Return(calls[c], "Ok")]
    /\ UNCHANGED <<autoWarm, instVars, sweepList, started, sbVars, poolConfig, poolInstances,
                   poolNow, lastScaleUp, scalerLog>>

\* start_health_check 655-681, for one instance of the pool: an instance
\* the manager reports in Error is marked unhealthy, any other healthy
HealthCheck(id) ==
    /\ id \in DOMAIN poolInstances
    /\ id \in DOMAIN activeInstances
    /\ poolInstances' = [poolInstances EXCEPT
                           ![id].is_healthy = activeInstances[id].state # "Error"]
    /\ UNCHANGED <<autoWarm, instVars, sweepList, calls, started, sbVars, poolConfig,
                   poolState, scaleVars>>

\* current_load of a pool instance, in hundredths: active_connections / 10.0
\* (update_instance_load 412)
CurrentLoad(id) == poolInstances[id].active_connections * 10

\* the sum of current_load over the healthy instances
TotalLoad == SumSeq([i \in 1..MaxInstanceIds |->
                       IF i \in HealthyInstances THEN CurrentLoad(i) ELSE 0])

\* avg_load > threshold and avg_load < threshold, for
\* avg_load = total_load / healthy_count (0.0 with no healthy instance)
AvgLoadAbove(threshold) == HealthyCount > 0 /\ TotalLoad > threshold * HealthyCount
AvgLoadBelow(threshold) ==
    IF HealthyCount = 0 THEN 0 < threshold ELSE TotalLoad < threshold * HealthyCount

\* last.map(|t| t.elapsed().as_secs() >= cooldown).unwrap_or(true)
CooldownElapsed(last, cooldown) == last.set => poolNow - last.at >= cooldown

\* the auto-scaling task has logged nothing yet
NoScalerLog == [kind |-> "none", from |-> 0, to |-> 0]

\* what a tick of the auto-scaling task decides (start_auto_scaling 703-774)
\* on the pool as it is: nothing, or a scale-up / scale-down from
\* healthy_count to target_count
ScalerDecision ==
    IF AvgLoadAbove(poolConfig.scale_up_threshold)
          /\ HealthyCount < poolConfig.max_instances
    THEN IF CooldownElapsed(lastScaleUp, poolConfig.scale_up_cooldown_secs)
         THEN [kind |-> "up", from |-> HealthyCount,
               to |-> Min(HealthyCount + 1, poolConfig.max_instances)]
         ELSE NoScalerLog
    ELSE IF AvgLoadBelow(poolConfig.scale_down_threshold)
               /\ HealthyCount > poolConfig.min_instances
         THEN IF CooldownElapsed(lastScaleDown, poolConfig.scale_down_cooldown_secs)
              THEN [kind |-> "down", from |-> HealthyCount,
                    to |-> Max(HealthyCount - 1, poolConfig.min_instances)]
              ELSE NoScalerLog
         ELSE NoScalerLog

\* start_auto_scaling 699-774, one tick of the task: the load is computed
\* and the cooldown read; a scale-up or scale-down that is due is logged,
\* and that is all the task does
AutoScaleTick ==
    /\ ScalerDecision.kind # "none"
    /\ scalerLog' = ScalerDecision
    /\ UNCHANGED <<autoWarm, instVars, sweepList, calls, started, sbVars, poolConfig,
                   poolState, poolInstances, poolNow, lastScaleUp, lastScaleDown>>

\* the period of the auto-scaling task (interval, line 698), in seconds
AutoScaleIntervalSecs == 30

\* time passes
PoolClockAdvance(secs) ==
    /\ poolNow + secs <= MaxPoolClock
    /\ poolNow' = poolNow + secs
    /\ UNCHANGED <<autoWarm, instVars, sweepList, calls, started, sbVars, poolConfig,
                   poolState, poolInstances, lastScaleUp, lastScaleDown, scalerLog>>

\* pause 846-851: the state is overwritten, whatever it was
PoolPause(c) ==
    /\ MayStartOnPool(c)
    /\ started' = started + 1
    /\ poolState' = "Paused"
    /\ calls' = [calls EXCEPT ![c] = Return(NewCall("pause"), "Ok")]
    /\ UNCHANGED <<autoWarm, instVars, sweepList, sbVars, poolConfig, poolInstances,
                   scaleVars>>

\* resume 854-859: the state is overwritten, whatever it was
PoolResume(c) ==
    /\ MayStartOnPool(c)
    /\ started' = started + 1
    /\ poolState' = "Running"
    /\ calls' = [calls EXCEPT ![c] = Return(NewCall("resume"), "Ok")]
    /\ UNCHANGED <<autoWarm, instVars, sweepList, sbVars, poolConfig, poolInstances,
                   scaleVars>>

----------------------------------------------------------------------------
(* LifecycleManager (scheduler/lifecycle.rs) *)

\* update_phase 818-833: the phase of a record that exists is overwritten;
\* for an unknown id nothing happens and Ok is returned all the same
update_phase(lc, id, new_phase) ==
    IF id \in DOMAIN lc THEN [lc EXCEPT ![id] = new_phase] ELSE lc

\* create_instance 419-427: the call goes into InstanceManager::create_instance
LifecycleCreateInstance(c, compiled) ==
    /\ MayStart(c)
    /\ nextInstanceId <= MaxCreateCalls
    /\ started' = started + 1
    /\ create_begin(c, NewCall("lifecycle_create"), compiled)
    /\ UNCHANGED <<autoWarm, activeInstances, sweepList, sbVars, poolVars, lcVars>>

\* create_instance 429-448: the record is inserted in phase Creating
LifecycleInsert(c) ==
    LET r == calls[c] IN
    /\ r.pc = "l_insert"
    /\ lifecycles' = Put(lifecycles, r.id, "Creating")
    /\ calls' = [calls EXCEPT ![c].pc = "l_ready"]
    /\ UNCHANGED <<autoWarm, instVars, sweepList, started, sbVars, poolVars, cleanupQueue>>

\* create_instance 450-472: the phase is Ready and Ok(instance_id) returned
LifecycleSetReady(c) ==
    LET r == calls[c] IN
    /\ r.pc = "l_ready"
    /\ lifecycles' = update_phase(lifecycles, r.id, "Ready")
    /\ calls' = [calls EXCEPT ![c] = Return(r, "Ok")]
    /\ UNCHANGED <<autoWarm, instVars, sweepList, started, sbVars, poolVars, cleanupQueue>>

\* mark_instance_idle 655-670: the phase is Idle; get_function_name fails
\* for an unknown id
LifecycleMarkInstanceIdle(c, id) ==
    /\ MayStart(c)
    /\ started' = started + 1
    /\ lifecycles' = update_phase(lifecycles, id, "Idle")
    /\ calls' = [calls EXCEPT ![c] =
                   Return([NewCall("lifecycle_mark_idle") EXCEPT !.id = id],
                          IF id \in DOMAIN lifecycles THEN "Ok" ELSE "NotFound")]
    /\ UNCHANGED <<autoWarm, instVars, sweepList, sbVars, poolVars, cleanupQueue>>

\* terminate_instance 673-690: the phase is Cleaning; get_function_name
\* fails for an unknown id
LifecycleTerminateInstance(c, id) ==
    LET r == [NewCall("lifecycle_terminate") EXCEPT !.id = id] IN
    /\ MayStart(c)
    /\ started' = started + 1
    /\ lifecycles' = update_phase(lifecycles, id, "Cleaning")
    /\ calls' = [calls EXCEPT ![c] =
                   IF id \in DOMAIN lifecycles THEN [r EXCEPT !.pc = "l_stop"]
                   ELSE Return(r, "NotFound")]
    /\ UNCHANGED <<autoWarm, instVars, sweepList, sbVars, poolVars, cleanupQueue>>

\* terminate_instance 693: the call goes into InstanceManager::stop_instance
LifecycleTerminateStop(c) ==
    /\ calls[c].pc = "l_stop"
    /\ stop_begin(c, calls[c], calls[c].id)
    /\ UNCHANGED <<autoWarm, activeInstances, nextInstanceId, sweepList, started, sbVars,
                   poolVars, lcVars>>

\* terminate_instance 694-721: after Ok of stop_instance the phase is
\* Terminated; get_function_name fails when the record has gone meanwhile
LifecycleSetTerminated(c) ==
    LET r == calls[c] IN
    /\ r.pc = "l_terminated"
    /\ lifecycles' = update_phase(lifecycles, r.id, "Terminated")
    /\ calls' = [calls EXCEPT ![c] =
                   IF r.id \in DOMAIN lifecycles THEN [r EXCEPT !.pc = "l_remove"]
                   ELSE Return(r, "NotFound")]
    /\ UNCHANGED <<autoWarm, instVars, sweepList, started, sbVars, poolVars, cleanupQueue>>

\* terminate_instance 723-734: the record is removed and Ok returned
LifecycleRemove(c) ==
    LET r == calls[c] IN
    /\ r.pc = "l_remove"
    /\ lifecycles' = Drop(lifecycles, r.id)
    /\ calls' = [calls EXCEPT ![c] = Return(r, "Ok")]
    /\ UNCHANGED <<autoWarm, instVars, sweepList, started, sbVars, poolVars, cleanupQueue>>

\* the cleanup task is in a stop_instance call
CleanupStopping == \E c \in Callers : calls[c].op = "lifecycle_cleanup" /\ calls[c].pc # "idle"

\* the records a tick of the cleanup task may find past idle_timeout_secs
IdleOrReady == {id \in DOMAIN lifecycles : lifecycles[id] \in {"Idle", "Ready"}}

\* start_cleanup 1001-1029, a tick of the task: the records in phase Idle or
\* Ready whose last activity is older than idle_timeout_secs are put on the
\* cleanup queue, which is drained into the list the loop goes through
LifecycleCleanupCollect(ids) ==
    /\ cleanupQueue = {}
    /\ ~CleanupStopping
    /\ ids # {}
    /\ ids \subseteq IdleOrReady
    /\ cleanupQueue' = ids
    /\ UNCHANGED <<rtVars, lifecycles>>

\* start_cleanup 1031-1037: the loop calls InstanceManager::stop_instance
\* on the next id of its list (the task runs the call as caller c does)
LifecycleCleanupStop(c, id) ==
    /\ id \in cleanupQueue
    /\ ~CleanupStopping
    /\ calls[c].pc = "idle"
    /\ cleanupQueue' = cleanupQueue \ {id}
    /\ stop_begin(c, NewCall("lifecycle_cleanup"), id)
    /\ UNCHANGED <<autoWarm, activeInstances, nextInstanceId, sweepList, started, sbVars,
                   poolVars, lifecycles>>

----------------------------------------------------------------------------
(* FunctionPool::stop and InstanceManager::cleanup *)

\* the orders in which a HashMap's keys can come out of keys()
KeyOrders(f) ==
    {s \in [1..Cardinality(DOMAIN f) -> DOMAIN f] :
        \A i, j \in DOMAIN s : i < j => s[i] # s[j]}

\* stop 866-869: the pool is Stopping
PoolStop(c) ==
    /\ MayStartOnPool(c)
    /\ started' = started + 1
    /\ poolState' = "Stopping"
    /\ calls' = [calls EXCEPT ![c] = [NewCall("pool_stop") EXCEPT !.pc = "o_abort"]]
    /\ UNCHANGED <<autoWarm, instVars, sweepList, sbVars, poolConfig, poolInstances,
                   scaleVars, pmVars>>

\* stop 872-885: the health check task and the auto-scaling task are aborted
PoolStopAbort(c) ==
    /\ calls[c].pc = "o_abort"
    /\ tasks' = [tasks EXCEPT !.health = FALSE, !.scaling = FALSE]
    /\ calls' = [calls EXCEPT ![c].pc = "o_collect"]
    /\ UNCHANGED <<autoWarm, instVars, sweepList, sbVars, poolVars, started, pmRest>>

\* stop 888-891: the ids of the pool's instances are collected
PoolStopCollect(c, order) ==
    /\ calls[c].pc = "o_collect"
    /\ order \in KeyOrders(poolInstances)
    /\ calls' = [calls EXCEPT ![c] =
                   [@ EXCEPT !.todo = order,
                             !.pc = IF order = <<>> THEN "o_clear" ELSE "o_stop"]]
    /\ UNCHANGED <<autoWarm, instVars, sweepList, sbVars, poolVars, started, pmVars>>

\* stop 893-897: the loop goes into InstanceManager::stop_instance
PoolStopInstance(c) ==
    /\ calls[c].pc = "o_stop"
    /\ stop_begin(c, calls[c], Head(calls[c].todo))
    /\ UNCHANGED <<autoWarm, activeInstances, nextInstanceId, sweepList, started,
                   sbVars, poolVars, pmVars>>

\* stop 900-903: the pool's instance map is cleared
PoolStopClear(c) ==
    /\ calls[c].pc = "o_clear"
    /\ poolInstances' = EmptyMap
    /\ calls' = [calls EXCEPT ![c].pc = "o_finish"]
    /\ UNCHANGED <<autoWarm, instVars, sweepList, started, sbVars, poolConfig, poolState,
                   scaleVars, pmVars>>

\* stop 906-912: the pool is Stopped
PoolStopFinish(c) ==
    /\ calls[c].pc = "o_finish"
    /\ poolState' = "Stopped"
    /\ calls' = [calls EXCEPT ![c] = Return(calls[c], "Ok")]
    /\ UNCHANGED <<autoWarm, instVars, sweepList, started, sbVars, poolConfig,
                   poolInstances, scaleVars, pmVars>>

\* InstanceManager::cleanup 817-823: the cleanup task is aborted, and with
\* it the sweep it may be in
ManagerCleanup(c) ==
    /\ MayStart(c)
    /\ started' = started + 1
    /\ tasks' = [tasks EXCEPT !.cleanup = FALSE]
    /\ sweepList' = {}
    /\ calls' = [calls EXCEPT ![c] = [NewCall("cleanup") EXCEPT !.pc = "i_collect"]]
    /\ UNCHANGED <<autoWarm, instVars, sbVars, poolVars, pmRest>>

\* cleanup 826-829: the ids of the active instances are collected
ManagerCleanupCollect(c, order) ==
    /\ calls[c].pc = "i_collect"
    /\ order \in KeyOrders(activeInstances)
    /\ calls' = [calls EXCEPT ![c] =
                   [@ EXCEPT !.todo = order,
                             !.pc = IF order = <<>> THEN "i_finish" ELSE "i_stop"]]
    /\ UNCHANGED <<autoWarm, instVars, sweepList, sbVars, poolVars, started, pmVars>>

\* cleanup 831-839: the loop goes into stop_instance
ManagerCleanupInstance(c) ==
    /\ calls[c].pc = "i_stop"
    /\ stop_begin(c, calls[c], Head(calls[c].todo))
    /\ UNCHANGED <<autoWarm, activeInstances, nextInstanceId, sweepList, started,
                   sbVars, poolVars, pmVars>>

\* cleanup 841-842
ManagerCleanupFinish(c) ==
    /\ calls[c].pc = "i_finish"
    /\ calls' = [calls EXCEPT ![c] = Return(calls[c], "Ok")]
    /\ UNCHANGED <<autoWarm, instVars, sweepList, started, sbVars, poolVars, pmVars>>

----------------------------------------------------------------------------
(* RustCompiler (runtime/compiler.rs) *)

\* names and source texts of the functions passed to compile_function
FunctionNames == {"f", "g"}
Sources == {"fn main() { 1 }", "fn main() { 2 }"}
\* the shared-library suffixes compile_to_dylib looks for
LibraryExts == {"so", "dylib"}

\* format!("{:x}", md5::compute(&function.code)): the MD5 digests of the
\* source texts above
Md5Table ==
    ("fn main() { 1 }" :> "88ac77a9f7c74c8a7900349c9b5135f9") @@
    ("fn main() { 2 }" :> "ceb267632be202d6d113b909420d0355")

source_hash(code) == Md5Table[code]

\* CompilerConfig::cache_dir (default) and max_cache_entries (set to 1, so
\* that the memo table overflows on the second function)
cache_dir == "./flux_cache"
max_cache_entries == 1

\* cache_library 410-419: cache_dir.join(format!("{}_{}.{}", name, hash, ext))
cache_path(function_name, hash, ext) ==
    cache_dir \o "/" \o function_name \o "_" \o hash \o "." \o ext

\* no CompiledFunction (None)
NoCompiled == [source_hash |-> "none", library_path |-> "none"]

\* a lookup that would take the memo entry of the name whatever its hash
get_cached_function_by_name(memo, files, function_name, hash) ==
    IF /\ function_name \in DOMAIN memo
       /\ memo[function_name].library_path \in files
    THEN memo[function_name]
    ELSE NoCompiled

\* get_cached_function 428-450: the memo entry of the name, if it is of the
\* same source hash and its library file exists; the disk cache is looked at
\* but never used
get_cached_function(memo, files, function_name, hash) ==
    IF /\ function_name \in DOMAIN memo
       /\ memo[function_name].source_hash = hash
       /\ memo[function_name].library_path \in files
    THEN memo[function_name]
    ELSE NoCompiled

\* a caller that is not inside compile_function
IdleCompile ==
    [pc |-> "idle", name |-> "none", source_hash |-> "none", library_path |-> "none"]

\* compile_function calls started so far
CompilesStarted ==
    Len(artifacts) + Cardinality({c \in Callers : compileCalls[c].pc # "idle"})

\* what a compile_function call returned: Ok(CompiledFunction) or Err
Returned(r, kind, path) ==
    Append(artifacts, [name |-> r.name, source_hash |-> r.source_hash,
                       kind |-> kind, library_path |-> path])

\* compile_function 114-124: the source is hashed and the memo table is
\* consulted; a hit is returned at once
CompileFunction(c, function_name, code) ==
    LET hash == source_hash(code)
        r == [IdleCompile EXCEPT !.name = function_name, !.source_hash = hash]
        cached == get_cached_function(compiledFunctions, cacheFiles, function_name, hash)
    IN /\ compileCalls[c].pc = "idle"
       /\ CompilesStarted < MaxCompileCalls
       /\ IF cached # NoCompiled
          THEN /\ artifacts' = Returned(r, "Ok", cached.library_path)
               /\ UNCHANGED compileCalls
          ELSE /\ compileCalls' = [compileCalls EXCEPT ![c] = [r EXCEPT !.pc = "build"]]
               /\ UNCHANGED artifacts
       /\ UNCHANGED <<libraryExt, compiledFunctions, cacheFiles, tempDirs>>

\* compile_function 128-143: rustc is looked up, the work directory written
\* and cargo build run; each can fail, which ends the call with Err
CompileBuild(c, built) ==
    LET r == compileCalls[c] IN
    /\ r.pc = "build"
    /\ IF built
       THEN /\ compileCalls' = [compileCalls EXCEPT ![c].pc = "cache"]
            /\ UNCHANGED artifacts
       ELSE /\ compileCalls' = [compileCalls EXCEPT ![c] = IdleCompile]
            /\ artifacts' = Returned(r, "Err", "none")
    /\ UNCHANGED <<libraryExt, compiledFunctions, cacheFiles, tempDirs>>

\* compile_function 146-147 (cache_library): the library is copied into the
\* cache directory; a failed copy ends the call with Err
CompileCacheLibrary(c, copied) ==
    LET r == compileCalls[c]
        cached_path == cache_path(r.name, r.source_hash, libraryExt)
    IN /\ r.pc = "cache"
       /\ IF copied
          THEN /\ cacheFiles' = cacheFiles \cup {cached_path}
               /\ compileCalls' = [compileCalls EXCEPT
                                     ![c] = [r EXCEPT !.library_path = cached_path,
                                                      !.pc = "memo"]]
               /\ UNCHANGED artifacts
          ELSE /\ compileCalls' = [compileCalls EXCEPT ![c] = IdleCompile]
               /\ artifacts' = Returned(r, "Err", "none")
               /\ UNCHANGED cacheFiles
       /\ UNCHANGED <<libraryExt, compiledFunctions, tempDirs>>

\* cache_compiled_function 453-464: the entry of the name is replaced; when
\* the table is over max_cache_entries the first key of its iteration order
\* (any key) is removed
cache_compiled_function(memo, function_name, compiled, evicted) ==
    LET inserted == Put(memo, function_name, compiled)
    IN IF Cardinality(DOMAIN inserted) > max_cache_entries
       THEN Drop(inserted, evicted)
       ELSE inserted

\* compile_function 151-181: the result is memoized, the work directory is
\* kept (the ten latest are) and Ok(compiled_function) is returned
CompileMemoize(c, evicted) ==
    LET r == compileCalls[c]
        compiled == [source_hash |-> r.source_hash, library_path |-> r.library_path]
    IN /\ r.pc = "memo"
       /\ evicted \in DOMAIN compiledFunctions \cup {r.name}
       /\ compiledFunctions' =
             cache_compiled_function(compiledFunctions, r.name, compiled, evicted)
       /\ tempDirs' = Min(tempDirs + 1, MaxTempDirs)
       /\ compileCalls' = [compileCalls EXCEPT ![c] = IdleCompile]
       /\ artifacts' = Returned(r, "Ok", r.library_path)
       /\ UNCHANGED <<libraryExt, cacheFiles>>

\* a library file disappears from the cache directory (the directory is the
\* operator's to clean)
CacheFileRemoved(path) ==
    /\ path \in cacheFiles
    /\ cacheFiles' = cacheFiles \ {path}
    /\ UNCHANGED <<libraryExt, compiledFunctions, tempDirs, compileCalls, artifacts>>

----------------------------------------------------------------------------
(* PoolManager (scheduler/pool.rs) *)

\* a FunctionPool as FunctionPool::new returns it: its instances are
\* created and its health check and auto-scaling loops run
NewPool(name) == [name |-> name, live |-> TRUE]

\* create_pool 939-950: FunctionPool::new builds the pool (or fails, and
\* create_pool with it), outside the lock on the manager's map
CreatePool(c, name, built) ==
    LET r == [IdlePoolCall EXCEPT !.op = "create_pool", !.name = name] IN
    /\ pmCalls[c].pc = "idle"
    /\ Len(pmObjects) < MaxPools
    /\ IF built
       THEN /\ pmObjects' = Append(pmObjects, NewPool(name))
            /\ pmCalls' = [pmCalls EXCEPT ![c] =
                              [r EXCEPT !.pool = Len(pmObjects) + 1, !.pc = "m_insert"]]
       ELSE /\ pmCalls' = [pmCalls EXCEPT ![c] = [r EXCEPT !.ret = "Err"]]
            /\ UNCHANGED pmObjects
    /\ UNCHANGED pmPools

\* create_pool 952-956: the pool is inserted under the function's name
CreatePoolInsert(c) ==
    LET r == pmCalls[c] IN
    /\ r.pc = "m_insert"
    /\ pmPools' = Put(pmPools, r.name, r.pool)
    /\ pmCalls' = [pmCalls EXCEPT ![c] = [r EXCEPT !.pc = "idle", !.ret = "Ok"]]
    /\ UNCHANGED pmObjects

\* remove_pool 967-970: the pool is taken out of the map
RemovePool(c, name) ==
    LET r == [IdlePoolCall EXCEPT !.op = "remove_pool", !.name = name] IN
    /\ pmCalls[c].pc = "idle"
    /\ IF name \in DOMAIN pmPools
       THEN /\ pmPools' = Drop(pmPools, name)
            /\ pmCalls' = [pmCalls EXCEPT ![c] =
                              [r EXCEPT !.pool = pmPools[name], !.pc = "m_stop"]]
       ELSE /\ pmCalls' = [pmCalls EXCEPT ![c] = [r EXCEPT !.ret = "Ok"]]
            /\ UNCHANGED pmPools
    /\ UNCHANGED pmObjects

\* remove_pool 972-977: the pool that was taken out is stopped
\* (FunctionPool::stop: its loops are aborted, its instances stopped)
RemovePoolStop(c) ==
    LET r == pmCalls[c] IN
    /\ r.pc = "m_stop"
    /\ pmObjects' = [pmObjects EXCEPT ![r.pool].live = FALSE]
    /\ pmCalls' = [pmCalls EXCEPT ![c] = [r EXCEPT !.pc = "idle", !.ret = "Ok"]]
    /\ UNCHANGED pmPools

----------------------------------------------------------------------------
(* Specifications *)

\* PoolManager::new (pool.rs 926-932): no pool; every spawned loop runs
PoolManagerNew ==
    /\ tasks = [health |-> TRUE, scaling |-> TRUE, cleanup |-> TRUE]
    /\ pmPools = EmptyMap
    /\ pmObjects = <<>>
    /\ pmCalls = [c \in Callers |-> IdlePoolCall]

\* LifecycleManager::new (lifecycle.rs 371-383): no record, nothing queued
LifecycleManagerNew ==
    /\ lifecycles = EmptyMap
    /\ cleanupQueue = {}

\* InstanceManager::new, with and without enable_auto_warm; there is no pool
ManagerNew(auto_warm) ==
    /\ PoolManagerNew
    /\ LifecycleManagerNew
    /\ autoWarm = auto_warm
    /\ activeInstances = EmptyMap
    /\ lifecycleEvents = [id \in InstanceIds |-> <<>>]
    /\ nextInstanceId = 1
    /\ sweepList = {}
    /\ activeMonitors = EmptyMap
    /\ activeProcesses = EmptyMap
    /\ samplers = EmptyMap
    /\ calls = [c \in Callers |-> IdleCall]
    /\ started = 0
    /\ poolConfig = PoolConfigOf(1, 2, 1)
    /\ poolState = "Initializing"
    /\ poolInstances = EmptyMap
    /\ poolNow = 0
    /\ lastScaleUp = NoInstant
    /\ lastScaleDown = NoInstant
    /\ scalerLog = NoScalerLog

\* the instance that create_instance leaves in the map when no other call
\* interferes, and the events it has emitted
CreatedInstance(compiled) ==
    [NewInstance EXCEPT !.state = IF compiled THEN "Ready" ELSE "Error"]
CreatedEvents(auto_warm) ==
    IF auto_warm THEN <<"Created", "WarmingStarted", "WarmingCompleted">>
    ELSE <<"Created">>

\* FunctionPool::new with initialize (207-289), which runs before any other
\* task can reach the pool: target_instances instances are created and the
\* pool is Running.  With enable_auto_warm an instance that fails to compile
\* fails the warm-up and with it the construction of the pool; without, it
\* is inserted in phase Error.
PoolNew(cfg, auto_warm, compiled) ==
    /\ PoolManagerNew
    /\ LifecycleManagerNew
    /\ autoWarm = auto_warm
    /\ activeInstances = [id \in 1..cfg.target_instances |-> CreatedInstance(compiled[id])]
    /\ lifecycleEvents = [id \in InstanceIds |->
                            IF id <= cfg.target_instances THEN CreatedEvents(auto_warm)
                            ELSE <<>>]
    /\ nextInstanceId = cfg.target_instances + 1
    /\ sweepList = {}
    /\ activeMonitors = EmptyMap
    /\ activeProcesses = EmptyMap
    /\ samplers = EmptyMap
    /\ calls = [c \in Callers |-> IdleCall]
    /\ started = 0
    /\ poolConfig = cfg
    /\ poolState = "Running"
    /\ poolInstances = [id \in 1..cfg.target_instances |-> NewPoolInstance]
    /\ poolNow = 0
    /\ lastScaleUp = NoInstant
    /\ lastScaleDown = NoInstant
    /\ scalerLog = NoScalerLog

\* RustCompiler::new (73-83): nothing compiled, the cache directory empty
CompilerNew(ext) ==
    /\ libraryExt = ext
    /\ compiledFunctions = EmptyMap
    /\ cacheFiles = {}
    /\ tempDirs = 0
    /\ compileCalls = [c \in Callers |-> IdleCompile]
    /\ artifacts = <<>>

\* LoadBalancer::new(config) with the targets map and the state empty
LBNew(cfg) ==
    /\ lbConfig = cfg
    /\ targets = <<>>
    /\ iterOrder = <<>>
    /\ lbState = [round_robin_counter |-> 0, weighted_round_robin_weights |-> <<>>,
                  random_seed |-> 0, consistent_hash_ring |-> <<>>]
    /\ now = 0
    /\ lbResult = [op |-> "new", kind |-> "Ok", val |-> "new"]
    /\ failRun = <<>>
    /\ draws = 0
    /\ picks = <<>>
    /\ keyPicks = [key \in RequestKeys |-> <<>>]
    /\ lastUpdate = NoUpdate
    /\ lbCalls = [c \in Callers |-> IdleLBCall]

\* LoadBalancerConfig::default(): RoundRobin, failover thresholds 3 / 2 / 60 s
DefaultLBConfig ==
    [strategy |-> "RoundRobin", failure_threshold |-> DefaultFailureThreshold,
     success_threshold |-> DefaultSuccessThreshold,
     circuit_breaker_recovery_secs |-> DefaultRecoverySecs]

\* Selection: every strategy, with a breaker that opens on the first failure
SelectionConfig(s) == [DefaultLBConfig EXCEPT !.strategy = s, !.failure_threshold = 1]

LBInit == (\E s \in Strategies : LBNew(SelectionConfig(s))) /\ ManagerNew(TRUE) /\ CompilerNew("so")

LBNext ==
    \/ \E id \in TargetIds, w \in Weights, m \in Metrics :
          AddTarget(id, w, m) /\ UNCHANGED exceptLB
    \/ \E id \in TargetIds : RemoveTarget(id) /\ UNCHANGED exceptLB
    \/ \E id \in TargetIds, ok \in BOOLEAN, m \in Metrics :
          UpdateTargetStatus(id, ok, m) /\ UNCHANGED exceptLB
    \/ \E key \in RequestKeys : SelectTarget(key) /\ UNCHANGED exceptLB

\* Ring: concurrent callers of add_target and remove_target under
\* ConsistentHash, and select_target between their steps
RingInit ==
    /\ LBNew(SelectionConfig("ConsistentHash"))
    /\ ManagerNew(TRUE)
    /\ CompilerNew("so")

RingNext ==
    \/ \E c \in Callers, id \in TargetIds, w \in Weights :
          AddTargetInsert(c, id, w, HistoryMetrics) /\ UNCHANGED exceptLBCalls
    \/ \E c \in Callers, id \in TargetIds :
          RemoveTargetRemove(c, id) /\ UNCHANGED exceptLBCalls
    \/ \E c \in Callers : UpdateConsistentHashRing(c) /\ UNCHANGED exceptLBCalls
    \/ \E key \in RequestKeys : SelectTarget(key) /\ UNCHANGED exceptLB

\* Selection histories: three targets, with what select_target returned
\* kept in picks (RoundRobin) and in keyPicks (ConsistentHash)
HistoryTargetIds == {"t1", "t2", "t3"}
\* the weight each target is added with
HistoryWeight(id) == IF id = "t2" THEN 2 ELSE 1

\* the call has left the eligible targets (in iteration order) as they were
SameEligible == HealthyTargets(targets', iterOrder') = HealthyTargets(targets, iterOrder)

\* a call that is not select_target has returned: picks starts again when
\* the eligible targets are no longer the same
PicksKept == picks' = IF SameEligible THEN picks ELSE <<>>

\* select_target has returned
PickMade ==
    IF lbResult'.kind = "Ok"
    THEN /\ Len(picks) < MaxPicks
         /\ picks' = Append(picks, lbResult'.val)
    ELSE UNCHANGED picks

RoundRobinInit ==
    /\ LBNew(SelectionConfig("RoundRobin"))
    /\ ManagerNew(TRUE)
    /\ CompilerNew("so")

RoundRobinNext ==
    \/ \E id \in HistoryTargetIds :
          AddTarget(id, HistoryWeight(id), HistoryMetrics) /\ PicksKept /\ UNCHANGED <<lcVars, lbCalls, rtVars, pmVars, ccVars, keyPicks, lastUpdate>>
    \/ \E id \in HistoryTargetIds :
          RemoveTarget(id) /\ PicksKept /\ UNCHANGED <<lcVars, lbCalls, rtVars, pmVars, ccVars, keyPicks, lastUpdate>>
    \/ \E id \in HistoryTargetIds, ok \in BOOLEAN :
          UpdateTargetStatus(id, ok, HistoryMetrics) /\ PicksKept
             /\ UNCHANGED <<lcVars, lbCalls, rtVars, pmVars, ccVars, keyPicks, lastUpdate>>
    \/ SelectTarget("default") /\ PickMade /\ UNCHANGED <<lcVars, lbCalls, rtVars, pmVars, ccVars, keyPicks, lastUpdate>>

\* Weighted selection histories: the same calls under WeightedRoundRobin,
\* the targets' scores being kept from one eligible set to the next
WeightedRoundRobinInit ==
    /\ LBNew(SelectionConfig("WeightedRoundRobin"))
    /\ ManagerNew(TRUE)
    /\ CompilerNew("so")

\* add_target / remove_target has returned: the membership is new
KeyPicksReset == keyPicks' = [key \in RequestKeys |-> <<>>]

\* select_target(key) has returned
KeyPickMade(key) ==
    IF lbResult'.kind = "Ok"
    THEN /\ Len(keyPicks[key]) < MaxKeyPicks
         /\ keyPicks' = [keyPicks EXCEPT ![key] = Append(@, lbResult'.val)]
    ELSE UNCHANGED keyPicks

ConsistentHashInit ==
    /\ LBNew(SelectionConfig("ConsistentHash"))
    /\ ManagerNew(TRUE)
    /\ CompilerNew("so")

ConsistentHashNext ==
    \/ \E id \in HistoryTargetIds :
          AddTarget(id, HistoryWeight(id), HistoryMetrics) /\ KeyPicksReset /\ UNCHANGED <<lcVars, lbCalls, rtVars, pmVars, ccVars, picks, lastUpdate>>
    \/ \E id \in HistoryTargetIds :
          RemoveTarget(id) /\ KeyPicksReset /\ UNCHANGED <<lcVars, lbCalls, rtVars, pmVars, ccVars, picks, lastUpdate>>
    \/ \E id \in HistoryTargetIds, ok \in BOOLEAN :
          UpdateTargetStatus(id, ok, HistoryMetrics) /\ UNCHANGED <<lcVars, lbCalls, rtVars, pmVars, ccVars, histVars>>
    \/ \E key \in RequestKeys :
          SelectTarget(key) /\ KeyPickMade(key) /\ UNCHANGED <<lcVars, lbCalls, rtVars, pmVars, ccVars, picks, lastUpdate>>

\* update_target_status(id, ok, ..) has returned
UpdateMade(id, ok) ==
    lastUpdate' = IF id \in DOMAIN targets
                  THEN [id |-> id, ok |-> ok, before |-> targets[id]]
                  ELSE NoUpdate

\* Half-open breaker: the default configuration, targets added in any
\* breaker state, status updates and the clock
HalfOpenInit == LBNew(DefaultLBConfig) /\ ManagerNew(TRUE) /\ CompilerNew("so")

HalfOpenNext ==
    \/ \E id \in TargetIds, cb \in CircuitBreakerStates,
          successes \in 0..(DefaultSuccessThreshold - 1) :
          /\ AddTargetAsIs(id, cb, successes, 0)
          /\ lastUpdate' = NoUpdate
          /\ UNCHANGED <<lcVars, lbCalls, rtVars, pmVars, ccVars, picks, keyPicks>>
    \/ \E id \in TargetIds :
          RemoveTarget(id) /\ lastUpdate' = NoUpdate /\ UNCHANGED <<lcVars, lbCalls, rtVars, pmVars, ccVars, picks, keyPicks>>
    \/ \E id \in TargetIds, ok \in BOOLEAN :
          UpdateTargetStatus(id, ok, HistoryMetrics) /\ UpdateMade(id, ok)
             /\ UNCHANGED <<lcVars, lbCalls, rtVars, pmVars, ccVars, picks, keyPicks>>
    \/ AdvanceClock /\ UNCHANGED exceptLB

\* Circuit breaker: the default configuration, with the clock
BreakerInit == LBNew(DefaultLBConfig) /\ ManagerNew(TRUE) /\ CompilerNew("so")

BreakerNext ==
    \/ \E id \in TargetIds, w \in BreakerWeights, m \in Metrics :
          AddTarget(id, w, m) /\ UNCHANGED exceptLB
    \/ \E id \in TargetIds : RemoveTarget(id) /\ UNCHANGED exceptLB
    \/ \E id \in TargetIds, ok \in BOOLEAN, m \in Metrics :
          UpdateTargetStatus(id, ok, m) /\ UNCHANGED exceptLB
    \/ SelectTarget("default") /\ UNCHANGED exceptLB
    \/ AdvanceClock /\ UNCHANGED exceptLB

\* Instance manager: concurrent callers of create, warm, execute and stop,
\* and the cleanup task
InstInit ==
    /\ LBNew(DefaultLBConfig)
    /\ CompilerNew("so")
    /\ \E auto_warm \in BOOLEAN : ManagerNew(auto_warm)

\* the lock sections every execute_instance call runs through
ExecuteSteps(c) ==
    \/ ExecuteSetRunning(c)
    \/ \E quota_found \in BOOLEAN : ExecuteStartMonitoring(c, quota_found)
    \/ \E setup_ok \in BOOLEAN, pid \in Pids : SandboxSpawn(c, setup_ok, pid)
    \/ \E success \in BOOLEAN : SandboxChildExit(c, success)
    \/ SandboxTimeout(c)
    \/ SandboxUnregister(c)
    \/ SandboxKill(c)
    \/ ExecuteStopMonitoring(c)
    \/ ExecuteRecord(c)
    \/ ExecuteReturn(c)

InstNext ==
    \/ \E c \in Callers, compiled \in BOOLEAN :
          CreateInstance(c, compiled) /\ UNCHANGED exceptRT
    \/ \E c \in Callers : CreateRegister(c) /\ UNCHANGED exceptRT
    \/ \E c \in Callers : CreateAutoWarm(c) /\ UNCHANGED exceptRT
    \/ \E c \in Callers, id \in InstanceIds : WarmInstance(c, id) /\ UNCHANGED exceptRT
    \/ \E c \in Callers : WarmSetWarming(c) /\ UNCHANGED exceptRT
    \/ \E c \in Callers : WarmComplete(c) /\ UNCHANGED exceptRT
    \/ \E c \in Callers, id \in InstanceIds : ExecuteInstance(c, id) /\ UNCHANGED exceptRT
    \/ \E c \in Callers : ExecuteSteps(c) /\ UNCHANGED exceptRT
    \/ \E c \in Callers, id \in InstanceIds : StopInstance(c, id) /\ UNCHANGED exceptRT
    \/ \E c \in Callers : StopSetStopped(c) /\ UNCHANGED exceptRT
    \/ \E c \in Callers : StopRemove(c) /\ UNCHANGED exceptRT
    \/ \E ids \in SUBSET InstanceIds : CleanupCollect(ids) /\ UNCHANGED exceptRT
    \/ \E id \in InstanceIds : CleanupRemove(id) /\ UNCHANGED exceptRT

\* Function pool: concurrent callers of execute, scale_up and scale_down,
\* the health check and the instance manager's cleanup task
PoolInit ==
    /\ LBNew(DefaultLBConfig)
    /\ CompilerNew("so")
    /\ \E cfg \in PoolConfigs, auto_warm \in BOOLEAN :
          \E compiled \in [1..cfg.target_instances -> BOOLEAN] :
             /\ auto_warm => \A id \in DOMAIN compiled : compiled[id]
             /\ PoolNew(cfg, auto_warm, compiled)

PoolNext ==
    \/ \E c \in Callers : PoolExecute(c) /\ UNCHANGED exceptRT
    \/ \E c \in Callers : PoolAcquire(c) /\ UNCHANGED exceptRT
    \/ \E c \in Callers : PoolExecuteInstance(c) /\ UNCHANGED exceptRT
    \/ \E c \in Callers : ExecuteSteps(c) /\ UNCHANGED exceptRT
    \/ \E c \in Callers : PoolRelease(c) /\ UNCHANGED exceptRT
    \/ \E c \in Callers, target_count \in ScaleTargets :
          ScaleUp(c, target_count) /\ UNCHANGED exceptRT
    \/ \E c \in Callers : ScaleUpSetState(c) /\ UNCHANGED exceptRT
    \/ \E c \in Callers, compiled \in BOOLEAN : ScaleUpCreate(c, compiled) /\ UNCHANGED exceptRT
    \/ \E c \in Callers : CreateRegister(c) /\ UNCHANGED exceptRT
    \/ \E c \in Callers : CreateAutoWarm(c) /\ UNCHANGED exceptRT
    \/ \E c \in Callers : WarmSetWarming(c) /\ UNCHANGED exceptRT
    \/ \E c \in Callers : WarmComplete(c) /\ UNCHANGED exceptRT
    \/ \E c \in Callers : ScaleUpInsert(c) /\ UNCHANGED exceptRT
    \/ \E c \in Callers : ScaleUpFinish(c) /\ UNCHANGED exceptRT
    \/ \E c \in Callers, target_count \in ScaleTargets :
          ScaleDown(c, target_count) /\ UNCHANGED exceptRT
    \/ \E c \in Callers : ScaleDownSetState(c) /\ UNCHANGED exceptRT
    \/ \E c \in Callers, order \in LoadOrders(poolInstances) :
          ScaleDownPick(c, order) /\ UNCHANGED exceptRT
    \/ \E c \in Callers : ScaleDownStop(c) /\ UNCHANGED exceptRT
    \/ \E c \in Callers : StopSetStopped(c) /\ UNCHANGED exceptRT
    \/ \E c \in Callers : StopRemove(c) /\ UNCHANGED exceptRT
    \/ \E c \in Callers : ScaleDownRemove(c) /\ UNCHANGED exceptRT
    \/ \E c \in Callers : ScaleDownFinish(c) /\ UNCHANGED exceptRT
    \/ \E id \in InstanceIds : HealthCheck(id) /\ UNCHANGED exceptRT
    \/ \E ids \in SUBSET InstanceIds : CleanupCollect(ids) /\ UNCHANGED exceptRT
    \/ \E id \in InstanceIds : CleanupRemove(id) /\ UNCHANGED exceptRT

\* Routing: concurrent callers of execute on a pool that is not scaled, and
\* the health check
RoutingNext ==
    \/ \E c \in Callers : PoolExecute(c) /\ UNCHANGED exceptRT
    \/ \E c \in Callers : PoolAcquire(c) /\ UNCHANGED exceptRT
    \/ \E c \in Callers : PoolExecuteInstance(c) /\ UNCHANGED exceptRT
    \/ \E c \in Callers : ExecuteSteps(c) /\ UNCHANGED exceptRT
    \/ \E c \in Callers : PoolRelease(c) /\ UNCHANGED exceptRT
    \/ \E id \in InstanceIds : HealthCheck(id) /\ UNCHANGED exceptRT

\* Scaling: a pool whose thresholds one connection crosses (an idle
\* instance is under scale_down_threshold, an instance with one connection
\* over scale_up_threshold) and whose cooldowns are one and two periods of
\* the auto-scaling task
ScaleConfigOf(target) ==
    [PoolConfigOf(1, MaxInstanceIds, target) EXCEPT
        !.scale_up_threshold = 8, !.scale_down_threshold = 2,
        !.scale_up_cooldown_secs = AutoScaleIntervalSecs,
        !.scale_down_cooldown_secs = 2 * AutoScaleIntervalSecs]

\* the caller of the scaling scenarios
ScaleCaller == "c1"

ScaleInit ==
    /\ LBNew(DefaultLBConfig)
    /\ CompilerNew("so")
    /\ \E target \in 1..MaxInstanceIds, auto_warm \in BOOLEAN :
          \E compiled \in [1..target -> BOOLEAN] :
             /\ auto_warm => \A id \in DOMAIN compiled : compiled[id]
             /\ PoolNew(ScaleConfigOf(target), auto_warm, compiled)

\* Scaling: one caller at a time of execute, scale_up and scale_down, the
\* health check, the pool's clock and its auto-scaling task
ScaleNext ==
    \/ PoolExecute(ScaleCaller) /\ UNCHANGED exceptRT
    \/ PoolAcquire(ScaleCaller) /\ UNCHANGED exceptRT
    \/ PoolExecuteInstance(ScaleCaller) /\ UNCHANGED exceptRT
    \/ ExecuteSteps(ScaleCaller) /\ UNCHANGED exceptRT
    \/ PoolRelease(ScaleCaller) /\ UNCHANGED exceptRT
    \/ \E target_count \in ScaleTargets : ScaleUp(ScaleCaller, target_count) /\ UNCHANGED exceptRT
    \/ ScaleUpSetState(ScaleCaller) /\ UNCHANGED exceptRT
    \/ \E compiled \in BOOLEAN : ScaleUpCreate(ScaleCaller, compiled) /\ UNCHANGED exceptRT
    \/ CreateRegister(ScaleCaller) /\ UNCHANGED exceptRT
    \/ CreateAutoWarm(ScaleCaller) /\ UNCHANGED exceptRT
    \/ WarmSetWarming(ScaleCaller) /\ UNCHANGED exceptRT
    \/ WarmComplete(ScaleCaller) /\ UNCHANGED exceptRT
    \/ ScaleUpInsert(ScaleCaller) /\ UNCHANGED exceptRT
    \/ ScaleUpFinish(ScaleCaller) /\ UNCHANGED exceptRT
    \/ \E target_count \in ScaleTargets :
          ScaleDown(ScaleCaller, target_count) /\ UNCHANGED exceptRT
    \/ ScaleDownSetState(ScaleCaller) /\ UNCHANGED exceptRT
    \/ \E order \in LoadOrders(poolInstances) :
          ScaleDownPick(ScaleCaller, order) /\ UNCHANGED exceptRT
    \/ ScaleDownStop(ScaleCaller) /\ UNCHANGED exceptRT
    \/ StopSetStopped(ScaleCaller) /\ UNCHANGED exceptRT
    \/ StopRemove(ScaleCaller) /\ UNCHANGED exceptRT
    \/ ScaleDownRemove(ScaleCaller) /\ UNCHANGED exceptRT
    \/ ScaleDownFinish(ScaleCaller) /\ UNCHANGED exceptRT
    \/ \E id \in InstanceIds : HealthCheck(id) /\ UNCHANGED exceptRT
    \/ AutoScaleTick /\ UNCHANGED exceptRT
    \/ PoolClockAdvance(AutoScaleIntervalSecs) /\ UNCHANGED exceptRT

\* a Running pool of target_instances instances that all compiled, so that
\* all of them are healthy and stay so
UpDownInit ==
    /\ LBNew(DefaultLBConfig)
    /\ CompilerNew("so")
    /\ \E target \in 1..(MaxInstanceIds - 1), auto_warm \in BOOLEAN :
          PoolNew(PoolConfigOf(1, MaxInstanceIds, target), auto_warm,
                  [id \in 1..target |-> TRUE])

\* Scale-up then scale-down: one caller calls scale_up(m) for a target
\* above the pool's size and within max_instances and then, when that call
\* has returned, scale_down to the pool's original size; the health check
\* runs all along
UpDownNext ==
    \/ \E target_count \in ScaleTargets :
          /\ started = 0
          /\ target_count > Cardinality(DOMAIN poolInstances)
          /\ target_count <= poolConfig.max_instances
          /\ ScaleUp(ScaleCaller, target_count)
          /\ UNCHANGED exceptRT
    \/ ScaleUpSetState(ScaleCaller) /\ UNCHANGED exceptRT
    \/ \E compiled \in BOOLEAN : ScaleUpCreate(ScaleCaller, compiled) /\ UNCHANGED exceptRT
    \/ CreateRegister(ScaleCaller) /\ UNCHANGED exceptRT
    \/ CreateAutoWarm(ScaleCaller) /\ UNCHANGED exceptRT
    \/ WarmSetWarming(ScaleCaller) /\ UNCHANGED exceptRT
    \/ WarmComplete(ScaleCaller) /\ UNCHANGED exceptRT
    \/ ScaleUpInsert(ScaleCaller) /\ UNCHANGED exceptRT
    \/ ScaleUpFinish(ScaleCaller) /\ UNCHANGED exceptRT
    \/ /\ started = 1
       /\ ScaleDown(ScaleCaller, poolConfig.target_instances)
       /\ UNCHANGED exceptRT
    \/ ScaleDownSetState(ScaleCaller) /\ UNCHANGED exceptRT
    \/ \E order \in LoadOrders(poolInstances) :
          ScaleDownPick(ScaleCaller, order) /\ UNCHANGED exceptRT
    \/ ScaleDownStop(ScaleCaller) /\ UNCHANGED exceptRT
    \/ StopSetStopped(ScaleCaller) /\ UNCHANGED exceptRT
    \/ StopRemove(ScaleCaller) /\ UNCHANGED exceptRT
    \/ ScaleDownRemove(ScaleCaller) /\ UNCHANGED exceptRT
    \/ ScaleDownFinish(ScaleCaller) /\ UNCHANGED exceptRT
    \/ \E id \in InstanceIds : HealthCheck(id) /\ UNCHANGED exceptRT

\* the caller of the memory cap scenarios
LimitsCaller == "c1"

\* Memory cap: one caller at a time of execute_instance on the instances
\* of a pool, with the sandbox's monitor task sampling the child
LimitsNext ==
    \/ \E id \in InstanceIds : ExecuteInstance(LimitsCaller, id) /\ UNCHANGED exceptRT
    \/ ExecuteSteps(LimitsCaller) /\ UNCHANGED exceptRT
    \/ SandboxOverMemory(LimitsCaller) /\ UNCHANGED exceptRT

\* the caller that shuts the pool and the manager down, and the caller
\* whose execution is in flight meanwhile
ShutdownCaller == "c1"
ExecuteCaller == "c2"

\* Shutdown: one caller stops the pool (FunctionPool::stop, which is what
\* PoolManager::cleanup calls on the pool it drained) and then calls
\* InstanceManager::cleanup, while another caller's pool.execute, the
\* health check, the auto-scaling task and the cleanup task run for as
\* long as they are not aborted
ShutdownNext ==
    \/ PoolExecute(ExecuteCaller) /\ UNCHANGED exceptRT
    \/ PoolAcquire(ExecuteCaller) /\ UNCHANGED exceptRT
    \/ PoolExecuteInstance(ExecuteCaller) /\ UNCHANGED exceptRT
    \/ ExecuteSteps(ExecuteCaller) /\ UNCHANGED exceptRT
    \/ PoolRelease(ExecuteCaller) /\ UNCHANGED exceptRT
    \/ \E id \in InstanceIds : tasks.health /\ HealthCheck(id) /\ UNCHANGED exceptRT
    \/ tasks.scaling /\ AutoScaleTick /\ UNCHANGED exceptRT
    \/ \E ids \in SUBSET InstanceIds :
          tasks.cleanup /\ CleanupCollect(ids) /\ UNCHANGED exceptRT
    \/ \E id \in InstanceIds : tasks.cleanup /\ CleanupRemove(id) /\ UNCHANGED exceptRT
    \/ /\ calls[ShutdownCaller].op = "none"
       /\ PoolStop(ShutdownCaller)
       /\ UNCHANGED exceptTasks
    \/ PoolStopAbort(ShutdownCaller) /\ UNCHANGED exceptTasks
    \/ \E order \in KeyOrders(poolInstances) :
          PoolStopCollect(ShutdownCaller, order) /\ UNCHANGED exceptTasks
    \/ PoolStopInstance(ShutdownCaller) /\ UNCHANGED exceptTasks
    \/ StopSetStopped(ShutdownCaller) /\ UNCHANGED exceptRT
    \/ StopRemove(ShutdownCaller) /\ UNCHANGED exceptRT
    \/ PoolStopClear(ShutdownCaller) /\ UNCHANGED exceptTasks
    \/ PoolStopFinish(ShutdownCaller) /\ UNCHANGED exceptTasks
    \/ /\ calls[ShutdownCaller].op = "pool_stop"
       /\ ManagerCleanup(ShutdownCaller)
       /\ UNCHANGED exceptTasks
    \/ \E order \in KeyOrders(activeInstances) :
          ManagerCleanupCollect(ShutdownCaller, order) /\ UNCHANGED exceptTasks
    \/ ManagerCleanupInstance(ShutdownCaller) /\ UNCHANGED exceptTasks
    \/ ManagerCleanupFinish(ShutdownCaller) /\ UNCHANGED exceptTasks

\* Stopping: one caller stops the pool while another calls execute, scale_up,
\* scale_down, pause or resume on it, before, during or after the stop
StoppedNext ==
    \/ /\ calls[ShutdownCaller].op = "none"
       /\ PoolStop(ShutdownCaller)
       /\ UNCHANGED exceptTasks
    \/ PoolStopAbort(ShutdownCaller) /\ UNCHANGED exceptTasks
    \/ \E order \in KeyOrders(poolInstances) :
          PoolStopCollect(ShutdownCaller, order) /\ UNCHANGED exceptTasks
    \/ PoolStopInstance(ShutdownCaller) /\ UNCHANGED exceptTasks
    \/ \E c \in Callers : StopSetStopped(c) /\ UNCHANGED exceptRT
    \/ \E c \in Callers : StopRemove(c) /\ UNCHANGED exceptRT
    \/ PoolStopClear(ShutdownCaller) /\ UNCHANGED exceptTasks
    \/ PoolStopFinish(ShutdownCaller) /\ UNCHANGED exceptTasks
    \/ PoolExecute(ExecuteCaller) /\ UNCHANGED exceptRT
    \/ PoolAcquire(ExecuteCaller) /\ UNCHANGED exceptRT
    \/ PoolExecuteInstance(ExecuteCaller) /\ UNCHANGED exceptRT
    \/ ExecuteSteps(ExecuteCaller) /\ UNCHANGED exceptRT
    \/ PoolRelease(ExecuteCaller) /\ UNCHANGED exceptRT
    \/ \E target_count \in ScaleTargets :
          ScaleUp(ExecuteCaller, target_count) /\ UNCHANGED exceptRT
    \/ ScaleUpSetState(ExecuteCaller) /\ UNCHANGED exceptRT
    \/ \E compiled \in BOOLEAN : ScaleUpCreate(ExecuteCaller, compiled) /\ UNCHANGED exceptRT
    \/ CreateRegister(ExecuteCaller) /\ UNCHANGED exceptRT
    \/ CreateAutoWarm(ExecuteCaller) /\ UNCHANGED exceptRT
    \/ WarmSetWarming(ExecuteCaller) /\ UNCHANGED exceptRT
    \/ WarmComplete(ExecuteCaller) /\ UNCHANGED exceptRT
    \/ ScaleUpInsert(ExecuteCaller) /\ UNCHANGED exceptRT
    \/ ScaleUpFinish(ExecuteCaller) /\ UNCHANGED exceptRT
    \/ \E target_count \in ScaleTargets :
          ScaleDown(ExecuteCaller, target_count) /\ UNCHANGED exceptRT
    \/ ScaleDownSetState(ExecuteCaller) /\ UNCHANGED exceptRT
    \/ \E order \in LoadOrders(poolInstances) :
          ScaleDownPick(ExecuteCaller, order) /\ UNCHANGED exceptRT
    \/ ScaleDownStop(ExecuteCaller) /\ UNCHANGED exceptRT
    \/ ScaleDownRemove(ExecuteCaller) /\ UNCHANGED exceptRT
    \/ ScaleDownFinish(ExecuteCaller) /\ UNCHANGED exceptRT
    \/ PoolPause(ExecuteCaller) /\ UNCHANGED exceptRT
    \/ PoolResume(ExecuteCaller) /\ UNCHANGED exceptRT

PoolManagerInit ==
    /\ LBNew(DefaultLBConfig)
    /\ CompilerNew("so")
    /\ ManagerNew(TRUE)

\* Lifecycle: concurrent callers of create_instance, mark_instance_idle and
\* terminate_instance on a started LifecycleManager, and its cleanup task
LifecycleNext ==
    \/ \E c \in Callers, compiled \in BOOLEAN :
          LifecycleCreateInstance(c, compiled) /\ UNCHANGED exceptLC
    \/ \E c \in Callers : CreateRegister(c) /\ UNCHANGED exceptRT
    \/ \E c \in Callers : CreateAutoWarm(c) /\ UNCHANGED exceptRT
    \/ \E c \in Callers : WarmSetWarming(c) /\ UNCHANGED exceptRT
    \/ \E c \in Callers : WarmComplete(c) /\ UNCHANGED exceptRT
    \/ \E c \in Callers : LifecycleInsert(c) /\ UNCHANGED exceptLC
    \/ \E c \in Callers : LifecycleSetReady(c) /\ UNCHANGED exceptLC
    \/ \E c \in Callers, id \in InstanceIds :
          LifecycleMarkInstanceIdle(c, id) /\ UNCHANGED exceptLC
    \/ \E c \in Callers, id \in InstanceIds :
          LifecycleTerminateInstance(c, id) /\ UNCHANGED exceptLC
    \/ \E c \in Callers : LifecycleTerminateStop(c) /\ UNCHANGED exceptLC
    \/ \E c \in Callers : StopSetStopped(c) /\ UNCHANGED exceptRT
    \/ \E c \in Callers : StopRemove(c) /\ UNCHANGED exceptRT
    \/ \E c \in Callers : LifecycleSetTerminated(c) /\ UNCHANGED exceptLC
    \/ \E c \in Callers : LifecycleRemove(c) /\ UNCHANGED exceptLC
    \/ \E ids \in SUBSET InstanceIds : LifecycleCleanupCollect(ids) /\ UNCHANGED exceptLC
    \/ \E c \in Callers, id \in InstanceIds :
          LifecycleCleanupStop(c, id) /\ UNCHANGED exceptLC

\* Pool manager: concurrent callers of create_pool and remove_pool
PoolManagerNext ==
    \/ \E c \in Callers, name \in FunctionNames, built \in BOOLEAN :
          CreatePool(c, name, built) /\ UNCHANGED exceptPM
    \/ \E c \in Callers : CreatePoolInsert(c) /\ UNCHANGED exceptPM
    \/ \E c \in Callers, name \in FunctionNames : RemovePool(c, name) /\ UNCHANGED exceptPM
    \/ \E c \in Callers : RemovePoolStop(c) /\ UNCHANGED exceptPM

\* Compiler: concurrent callers of compile_function on one compiler, and
\* the cache directory being cleaned
CompileInit ==
    /\ LBNew(DefaultLBConfig)
    /\ ManagerNew(TRUE)
    /\ \E ext \in LibraryExts : CompilerNew(ext)

CompileNext ==
    \/ \E c \in Callers, function_name \in FunctionNames, code \in Sources :
          CompileFunction(c, function_name, code) /\ UNCHANGED exceptCC
    \/ \E c \in Callers, built \in BOOLEAN : CompileBuild(c, built) /\ UNCHANGED exceptCC
    \/ \E c \in Callers, copied \in BOOLEAN :
          CompileCacheLibrary(c, copied) /\ UNCHANGED exceptCC
    \/ \E c \in Callers, evicted \in FunctionNames :
          CompileMemoize(c, evicted) /\ UNCHANGED exceptCC
    \/ \E path \in cacheFiles : CacheFileRemoved(path) /\ UNCHANGED exceptCC

vars == <<lbVars, rtVars, pmVars, ccVars, histVars, lbCalls, lcVars>>

SpecLB == LBInit /\ [][LBNext]_vars

SpecRing == RingInit /\ [][RingNext]_vars

SpecBreaker == BreakerInit /\ [][BreakerNext]_vars

SpecHalfOpen == HalfOpenInit /\ [][HalfOpenNext]_vars

SpecRoundRobin == RoundRobinInit /\ [][RoundRobinNext]_vars

SpecWeightedRoundRobin == WeightedRoundRobinInit /\ [][RoundRobinNext]_vars

SpecConsistentHash == ConsistentHashInit /\ [][ConsistentHashNext]_vars

SpecInst == InstInit /\ [][InstNext]_vars

SpecPool == PoolInit /\ [][PoolNext]_vars

SpecRouting == PoolInit /\ [][RoutingNext]_vars

SpecScale == ScaleInit /\ [][ScaleNext]_vars

\* the health check and the auto-scaling task run on an interval for as
\* long as the pool lives, so each is scheduled again and again; nothing
\* obliges a caller to start a call.  A check or a tick that finds nothing
\* to change leaves the state as it is.
ScaleFairness ==
    /\ WF_vars(AutoScaleTick /\ UNCHANGED exceptRT)
    /\ \A id \in InstanceIds : WF_vars(HealthCheck(id) /\ UNCHANGED exceptRT)

SpecScaleFair == SpecScale /\ ScaleFairness

SpecUpDown == UpDownInit /\ [][UpDownNext]_vars

SpecLimits == PoolInit /\ [][LimitsNext]_vars

SpecShutdown == PoolInit /\ [][ShutdownNext]_vars

SpecStopped == PoolInit /\ [][StoppedNext]_vars

SpecLifecycle == InstInit /\ [][LifecycleNext]_vars

SpecPoolManager == PoolManagerInit /\ [][PoolManagerNext]_vars

SpecCompile == CompileInit /\ [][CompileNext]_vars


----------------------------------------------------------------------------
(* Load balancer: properties *)

\* the last call was a select_target
Selected == lbResult.op = "select_target"

\* no target passes the filter of select_target
NoneEligible == HealthyTargets(targets, iterOrder) = <<>>

\* C1: under every strategy, select_target returns only the id of a target
\* that is healthy and whose breaker is Closed at the time of the call.
\* (targets is as the call saw it: every other call overwrites lbResult)
C1_SelectsOnlyEligible ==
    (Selected /\ lbResult.kind = "Ok") =>
        /\ lbResult.val \in DOMAIN targets
        /\ Eligible(targets[lbResult.val])

\* C8, as stated: with no eligible target (an empty map included)
\* select_target returns the no-healthy-targets error
C8_NoEligibleIsNoHealthyError ==
    (Selected /\ NoneEligible) =>
        (lbResult.kind = "Err" /\ lbResult.val = "No healthy targets available")

\* C8, amended: with no eligible target select_target returns an error and
\* never panics, under every strategy: "No targets available" when the map is
\* empty, "No healthy targets available" when it holds only ineligible targets
C8_NoEligibleIsError ==
    (Selected /\ NoneEligible) =>
        /\ lbResult.kind = "Err"
        /\ lbResult.val = IF DOMAIN targets = {} THEN "No targets available"
                          ELSE "No healthy targets available"

\* C8 witness: select_target under WeightedRandom on two targets of weight 0
\* (where the strategy itself would divide by zero), none of them eligible
C8_Witness ==
    /\ Selected
    /\ lbConfig.strategy = "WeightedRandom"
    /\ DOMAIN targets = TargetIds
    /\ \A id \in TargetIds : targets[id].weight = 0 /\ ~Eligible(targets[id])
    /\ lbResult.kind = "Err"

\* C39: with at least one eligible target select_target never panics: under
\* every strategy and whatever the weights (0 included) it returns Ok with
\* the id of one of the eligible targets.
C39_SelectNeverPanics ==
    (Selected /\ ~NoneEligible) =>
        /\ lbResult.kind = "Ok"
        /\ lbResult.val \in DOMAIN targets
        /\ Eligible(targets[lbResult.val])

\* a failed / successful status update of a present target
FailedUpdate(id) == \E m \in Metrics : UpdateTargetStatus(id, FALSE, m)
OkUpdate(id) == \E m \in Metrics : UpdateTargetStatus(id, TRUE, m)

\* C4: from Closed, a failed update leaves the breaker Closed while the run of
\* consecutive failed updates is shorter than failure_threshold and opens it
\* on the failure_threshold-th; a successful update keeps it Closed and
\* restarts the run
C4_OpensAtThreshold ==
    [][\A id \in DOMAIN targets :
          targets[id].circuit_breaker_state = "Closed" =>
             /\ FailedUpdate(id) =>
                   /\ failRun'[id] = failRun[id] + 1
                   /\ targets'[id].circuit_breaker_state =
                         IF failRun'[id] >= lbConfig.failure_threshold
                         THEN "Open" ELSE "Closed"
             /\ OkUpdate(id) =>
                   /\ failRun'[id] = 0
                   /\ targets'[id].circuit_breaker_state = "Closed"]_vars

\* C4 witness: a breaker just opened by the third consecutive failed update,
\* while the other target, with a success in between, is still Closed after
\* more than failure_threshold updates
C4_Witness ==
    /\ lbResult.op = "update_target_status"
    /\ \E id \in DOMAIN targets :
          /\ failRun[id] = lbConfig.failure_threshold
          /\ targets[id].circuit_breaker_state = "Open"
    /\ \E id \in DOMAIN targets :
          /\ failRun[id] = lbConfig.failure_threshold - 1
          /\ targets[id].consecutive_failures = failRun[id]
          /\ targets[id].circuit_breaker_state = "Closed"

\* C5: an update of a target whose breaker is Open and whose last activity is
\* more than recovery_secs old moves the breaker out of Open (to HalfOpen)
C5_OpenRecoversAfterTimeout ==
    [][\A id \in DOMAIN targets :
          (/\ targets[id].circuit_breaker_state = "Open"
           /\ now - targets[id].last_activity > lbConfig.circuit_breaker_recovery_secs
           /\ OkUpdate(id))
          => targets'[id].circuit_breaker_state = "HalfOpen"]_vars

----------------------------------------------------------------------------
(* Instance manager and sandbox: properties *)

\* the phase the active map holds for an instance
PhaseOf(id) ==
    IF id \in DOMAIN activeInstances THEN activeInstances[id].state ELSE "absent"

\* the call is inside execute_instance, between the write of Running and
\* the final write
Executing(c) ==
    calls[c].pc \in {"x_monitor", "x_spawn", "x_wait", "x_unregister", "x_kill",
                     "x_stop", "x_record"}

\* the caller's last call was an execute_instance (directly or through the
\* pool) and has returned
ExecuteReturned(c) ==
    calls[c].pc = "idle" /\ calls[c].op \in {"execute_instance", "pool_execute"}

\* C6: execute_instance on an instance whose phase is neither Ready nor Idle
\* returns the not-ready error in the step that reads the phase: no child is
\* spawned, the instance's phase and counters stay as they are, no lifecycle
\* event is recorded and no monitor is registered.
C6_NotReadyIsRejected ==
    [][\A c \in Callers, id \in InstanceIds :
          (/\ ExecuteInstance(c, id)
           /\ id \in DOMAIN activeInstances
           /\ activeInstances[id].state \notin {"Ready", "Idle"})
          => /\ calls'[c].pc = "idle"
             /\ calls'[c].ret = "NotReady"
             /\ calls'[c].child = "none"
             /\ UNCHANGED <<activeInstances, lifecycleEvents, activeMonitors,
                            activeProcesses>>]_vars

\* an execute_instance call was rejected as not ready on an instance that
\* another call holds in Running
C6_Witness ==
    \E c \in Callers :
        /\ calls[c].op = "execute_instance"
        /\ calls[c].pc = "idle"
        /\ calls[c].ret = "NotReady"
        /\ PhaseOf(calls[c].id) = "Running"
        /\ \E d \in Callers \ {c} : Executing(d) /\ calls[d].id = calls[c].id

C9_TimeoutReturnsTimeout ==
    \A c \in Callers :
        (calls[c].timed_out /\ calls[c].status # "none")
           => calls[c].child = "killed" /\ calls[c].status = "Timeout"

EventCount(id, kind) ==
    Cardinality({i \in 1..Len(lifecycleEvents[id]) : lifecycleEvents[id][i] = kind})

\* C11: the events recorded for an instance, in the order in which they were
\* recorded, begin with its only Created event and hold at most one
\* termination (Stopped) event, whatever calls and sweeps act on the instance.
C11_OneCreationOneTermination ==
    \A id \in InstanceIds :
        lifecycleEvents[id] # <<>> =>
            /\ lifecycleEvents[id][1] = "Created"
            /\ EventCount(id, "Created") = 1
            /\ EventCount(id, "Stopped") <= 1

\* C20: at any time at most one monitor is active for a process id:
\* starting monitoring for a pid that is monitored does not leave two sets
\* of samplers running for it, and after stop(pid), when the monitor map
\* holds no entry for it, no sampler for the pid keeps running.
C20_OneMonitorPerPid ==
    \A pid \in DOMAIN samplers :
        /\ samplers[pid] <= 1
        /\ pid \notin DOMAIN activeMonitors => samplers[pid] = 0

\* the executions of an instance that have come to their end: each one has
\* recorded ExecutionCompleted or ExecutionFailed
CompletedExecutions(id) ==
    EventCount(id, "ExecutionCompleted") + EventCount(id, "ExecutionFailed")

\* no call is at work on the instance
NoCallOn(id) == \A c \in Callers : calls[c].pc = "idle" \/ calls[c].id # id

\* C30: the counters of an instance reflect every completed execution: when
\* k executions of the instance have returned, a read of the instance shows
\* total_executions = k and successful_executions + failed_executions =
\* total_executions.
C30_CountersReflectExecutions ==
    \A id \in DOMAIN activeInstances :
        NoCallOn(id) =>
            /\ activeInstances[id].total_executions = CompletedExecutions(id)
            /\ activeInstances[id].successful_executions
                  + activeInstances[id].failed_executions
                  = activeInstances[id].total_executions

\* C25: every instance a sweep finds Idle for longer than max_idle_duration
\* is stopped, and the stop removes the instance from the active map and
\* records a termination (Stopped) event for it: when the sweep takes an
\* instance out of the map, the instance's history holds the event.
C25_SweepStopsIdle ==
    [][\A id \in InstanceIds :
          (CleanupRemove(id) /\ id \in DOMAIN activeInstances)
             => /\ id \notin DOMAIN activeInstances'
                /\ EventCount(id, "Stopped")' >= 1]_vars

\* C21: when a sample of a monitored process exceeds a hard limit the
\* process is terminated, so that an execution whose child went over the
\* memory cap ends with status Failed and no surviving child: the child was
\* killed, or it ended with a failure.
C21_OverMemoryFails ==
    \A c \in Callers :
        (ExecuteReturned(c) /\ calls[c].over_memory)
           => calls[c].status = "Failed" /\ calls[c].child \in {"killed", "exited"}

\* the caller's last call was a stop_instance that has returned Ok
StopReturned(c) ==
    calls[c].op = "stop_instance" /\ calls[c].pc = "idle" /\ calls[c].ret = "Ok"

\* C35: a stopped instance never comes back: once stop_instance(id) has
\* returned, id is not in the active map again, even if an execute_instance
\* or warm_instance call on id was in flight when the stop happened.
C35_StoppedStaysGone ==
    \A c \in Callers : StopReturned(c) => calls[c].id \notin DOMAIN activeInstances

\* C36: at most one execution is in flight per instance: of two
\* execute_instance calls issued concurrently on the same Ready or Idle
\* instance at most one passes the phase check and runs the function.
C36_OneExecutionPerInstance ==
    \A c, d \in Callers :
        (c # d /\ calls[c].id = calls[d].id) => ~(Executing(c) /\ Executing(d))

\* no add_target or remove_target call is between its two lock sections
NoRingCallInFlight == \A c \in Callers : lbCalls[c].pc = "idle"

\* the entries of the ring that belong to a target
RingNodesOf(id) ==
    {i \in 1..Len(lbState.consistent_hash_ring) : lbState.consistent_hash_ring[i][2] = id}

\* the ring is sorted by hash
RingSorted ==
    \A i, j \in 1..Len(lbState.consistent_hash_ring) :
        i < j => lbState.consistent_hash_ring[i][1] <= lbState.consistent_hash_ring[j][1]

\* C32 as stated: once the add_target and remove_target calls have returned
\* the ring holds 3 * weight virtual nodes (at most 300) for each target of
\* the target map, none for any other id, and is sorted by hash.
C32_RingMatchesTargets ==
    NoRingCallInFlight =>
        /\ \A id \in DOMAIN targets :
              Cardinality(RingNodesOf(id))
                 = Min(targets[id].weight * VirtualNodesPerWeight, MaxVirtualNodes)
        /\ \A id \in TargetIds \ DOMAIN targets : RingNodesOf(id) = {}
        /\ RingSorted

\* C32, amended: once the add_target and remove_target calls have returned
\* the ring holds 3 * max(weight, 1) virtual nodes (at most 300) for each
\* target of the target map, none for any other id, and is sorted by hash.
C32_RingMatchesTargetsFromOne ==
    NoRingCallInFlight =>
        /\ \A id \in DOMAIN targets :
              Cardinality(RingNodesOf(id))
                 = Min(Max(targets[id].weight, 1) * VirtualNodesPerWeight, MaxVirtualNodes)
        /\ \A id \in TargetIds \ DOMAIN targets : RingNodesOf(id) = {}
        /\ RingSorted

\* both callers' calls have returned, the first caller's last being a
\* remove_target, and the target map holds a target of weight 0 and one of
\* weight 2
C32_Witness ==
    /\ NoRingCallInFlight
    /\ \A c \in Callers : lbCalls[c].op # "none"
    /\ \E id \in DOMAIN targets : targets[id].weight = 0
    /\ \E id \in DOMAIN targets : targets[id].weight = 2
    /\ lbCalls["c1"].op = "remove_target"

----------------------------------------------------------------------------
(* Function pool: properties *)

\* C2: the number of healthy instances of the pool is at most max_instances.
C2_HealthyAtMostMax == HealthyCount <= poolConfig.max_instances

\* C3: while the pool is Running, the number of healthy instances is at
\* least min_instances.
C3_RunningHasMinHealthy ==
    poolState = "Running" => HealthyCount >= poolConfig.min_instances

\* the instance is in the pool with a request in flight
Busy(id) == id \in DOMAIN poolInstances /\ poolInstances[id].active_connections > 0

\* C13: scale_down selects no instance that has active connections, and no
\* instance has active connections when scale_down stops it.
C13_ScaleDownSparesBusy ==
    [][\A c \in Callers :
          /\ (\E order \in LoadOrders(poolInstances) : ScaleDownPick(c, order))
                => \A i \in 1..Len(calls'[c].todo) : ~Busy(calls'[c].todo[i])
          /\ ScaleDownStop(c) => ~Busy(Head(calls[c].todo))]_vars

\* C17: when more pool.execute calls run at once than the pool has
\* instances, none is rejected because the instance it was routed to is
\* already executing another request: execute_instance accepts the call on
\* an instance in phase Running.
C17_ConcurrentExecutesSucceed ==
    [][\A c \in Callers :
          (/\ PoolExecuteInstance(c)
           /\ calls[c].id \in DOMAIN activeInstances
           /\ activeInstances[calls[c].id].state = "Running")
              => calls'[c].ret # "NotReady"]_vars

----------------------------------------------------------------------------
(* Half-open breaker: properties *)

\* C26: a status update on a target whose breaker is HalfOpen moves the
\* breaker to Open if it is a failure, to Closed if it is a success that
\* brings consecutive_successes to success_threshold or more, and leaves
\* it HalfOpen otherwise.
C26_HalfOpenTransitions ==
    (lastUpdate.id # "none" /\ lastUpdate.before.circuit_breaker_state = "HalfOpen") =>
        targets[lastUpdate.id].circuit_breaker_state =
            IF ~lastUpdate.ok THEN "Open"
            ELSE IF lastUpdate.before.consecutive_successes + 1 >= lbConfig.success_threshold
                 THEN "Closed"
                 ELSE "HalfOpen"

\* a HalfOpen target with one success has been closed by its second, while
\* the other target, HalfOpen as well, waits
C26_Witness ==
    /\ lastUpdate.id # "none" /\ lastUpdate.ok
    /\ lastUpdate.before.circuit_breaker_state = "HalfOpen"
    /\ lastUpdate.before.consecutive_successes = 1
    /\ targets[lastUpdate.id].circuit_breaker_state = "Closed"
    /\ \E id \in DOMAIN targets : targets[id].circuit_breaker_state = "HalfOpen"

----------------------------------------------------------------------------
(* Selection histories: properties *)

\* how often id occurs in the sequence s
Occurrences(s, id) == Cardinality({i \in 1..Len(s) : s[i] = id})

\* C18: under RoundRobin with a fixed set of N eligible targets the
\* selections go round in a fixed cycle: selection i+N is selection i,
\* every N consecutive selections hold each eligible target once, and 9
\* selections over 3 targets choose each id 3 times.
C18_RoundRobinCyclic ==
    LET h == HealthyTargets(targets, iterOrder)
        N == Len(h)
    IN lbConfig.strategy = "RoundRobin" =>
          /\ \A i \in 1..Len(picks) :
                /\ i + N <= Len(picks) => picks[i + N] = picks[i]
                /\ i + N - 1 <= Len(picks)
                      => {picks[j] : j \in i..(i + N - 1)} = Range(h)
          /\ (N = 3 /\ Len(picks) = 9) => \A id \in Range(h) : Occurrences(picks, id) = 3

\* nine selections have been made over three eligible targets
C18_Witness ==
    /\ lbConfig.strategy = "RoundRobin"
    /\ Len(HealthyTargets(targets, iterOrder)) = 3
    /\ Len(picks) = 9

\* the sum of the eligible targets' weights
EligibleWeight ==
    LET h == HealthyTargets(targets, iterOrder)
    IN SumSeq([i \in 1..Len(h) |-> targets[h[i]].weight])

\* C34: under WeightedRoundRobin with a fixed eligible set of total weight
\* W, each successive cycle of W selections holds every eligible target
\* exactly as many times as its weight (so a heavier target is selected more
\* often than a lighter one).
C34_WeightedProportional ==
    LET h == HealthyTargets(targets, iterOrder)
        W == EligibleWeight
    IN (lbConfig.strategy = "WeightedRoundRobin" /\ W > 0) =>
          \A k \in 0..(MaxPicks \div W) :
              (k + 1) * W <= Len(picks) =>
                  \A id \in Range(h) :
                      Occurrences(SubSeq(picks, k * W + 1, (k + 1) * W), id)
                         = targets[id].weight

C27_UnhealthyNotRouted ==
    [][/\ \A id \in InstanceIds :
             (HealthCheck(id) /\ activeInstances[id].state = "Error")
                => ~poolInstances'[id].is_healthy
       /\ \A c \in Callers :
             (PoolExecute(c) /\ calls'[c].pc = "p_acquire")
                => poolInstances[calls'[c].id].is_healthy]_vars

\* the health check has marked the Error instance unhealthy, and an execute
\* that came afterwards was routed past it, to the other instance, or was
\* turned away because the pool had no other
C27_Witness ==
    \E id \in DOMAIN poolInstances :
        /\ id \in DOMAIN activeInstances /\ activeInstances[id].state = "Error"
        /\ ~poolInstances[id].is_healthy
        /\ \E c \in Callers :
              /\ calls[c].op = "pool_execute"
              /\ calls[c].pc = "idle"
              /\ calls[c].ret = "NoHealthyInstances"

\* the instance was added by a scale-up (FunctionPool::new created the
\* instances 1..target_instances)
CreatedByScaleUp(id) == id > poolConfig.target_instances

\* the instance has not come out of its creation as Ready: it is Creating
\* or Warming, or it is in Error without ever having executed
NotYetReady(id) ==
    \/ PhaseOf(id) \in {"Creating", "Warming"}
    \/ PhaseOf(id) = "Error" /\ EventCount(id, "ExecutionStarted") = 0

\* C28: an instance created by a scale-up is not selectable for routing
\* before it has reached phase Ready: FunctionPool::execute never selects
\* such an instance while it is Creating or Warming or when it ended its
\* creation in Error.
C28_NewInstanceReadyBeforeRouted ==
    [][\A c \in Callers :
          (PoolExecute(c) /\ calls'[c].pc = "p_acquire" /\ CreatedByScaleUp(calls'[c].id))
             => ~NotYetReady(calls'[c].id)]_vars

\* the pool.execute calls in flight on an instance: those between their
\* increment and their decrement of its active_connections
InFlightOn(id) ==
    {c \in Callers : /\ calls[c].op = "pool_execute"
                     /\ calls[c].id = id
                     /\ calls[c].pc \notin {"idle", "p_acquire"}}

\* C29: for every instance of the pool, active_connections is the number of
\* pool.execute calls in flight on it: a call increments it once before it
\* executes and decrements it once afterwards, whether the execution
\* succeeds or fails, so it is 0 when no call is in flight and never
\* underflows.
C29_ConnectionsCountInFlight ==
    \A id \in DOMAIN poolInstances :
        poolInstances[id].active_connections = Cardinality(InFlightOn(id))

\* both callers' calls on one instance have returned, one of them with a
\* failure, and the instance is back at 0
C29_Witness ==
    \E id \in DOMAIN poolInstances :
        /\ poolInstances[id].active_connections = 0
        /\ \A c \in Callers :
              calls[c].pc = "idle" /\ calls[c].op = "pool_execute" /\ calls[c].id = id
        /\ \E c, d \in Callers : calls[c].ret = "Ok" /\ calls[d].ret \notin {"Ok", "none"}

\* C22: for a Running pool with n healthy instances, a scale-up to m
\* (n < m <= max_instances) followed by a scale-down to the original target
\* n leaves the pool with exactly n healthy instances.
C22_UpThenDownRestores ==
    (calls[ScaleCaller].op = "scale_down" /\ calls[ScaleCaller].pc = "idle")
       => HealthyCount = poolConfig.target_instances

\* the shutdown has completed: the pool was stopped and the instance
\* manager's cleanup has returned
ShutdownCompleted ==
    calls[ShutdownCaller].op = "cleanup" /\ calls[ShutdownCaller].pc = "idle"

\* C24: after shutdown (pool stop, instance-manager cleanup) has completed
\* the health and auto-scaling loops no longer run, every instance has been
\* stopped, and the pool's instance set and the instance manager's active
\* map are empty, also when executions were in flight when it began.
C24_ShutdownLeavesNothing ==
    ShutdownCompleted =>
        /\ ~tasks.health /\ ~tasks.scaling
        /\ DOMAIN poolInstances = {}
        /\ DOMAIN activeInstances = {}

\* the pools built for a function that are live: their instances exist
\* and their loops run
LivePools(name) ==
    {i \in 1..Len(pmObjects) : pmObjects[i].name = name /\ pmObjects[i].live}

\* C23: there is one pool per function name: after any sequence of
\* create_pool and remove_pool calls no function name has more than one
\* live pool.
C23_OnePoolPerName ==
    (\A c \in Callers : pmCalls[c].pc = "idle")
       => \A name \in FunctionNames : Cardinality(LivePools(name)) <= 1

\* C37: every instance id in a Running pool's instance set refers to an
\* instance that exists in the instance manager's active map, so that
\* pool.execute is never routed to an instance that the idle sweeper or
\* another stop has removed.
C37_PoolIdsAreActive ==
    poolState = "Running" => DOMAIN poolInstances \subseteq DOMAIN activeInstances

\* the pool's stop() has returned
PoolStopReturned ==
    calls[ShutdownCaller].op = "pool_stop" /\ calls[ShutdownCaller].pc = "idle"

\* C38: Stopped is terminal: once stop() has returned the pool's state is
\* Stopped and its instance set is empty, whatever resume, scale_up,
\* scale_down or execute call comes later or was in flight during the stop.
C38_StoppedIsTerminal ==
    PoolStopReturned => (poolState = "Stopped" /\ DOMAIN poolInstances = {})

\* the records get_statistics counts as active or idle (759-790): those in
\* phase Ready, Executing or Idle
CountedLive ==
    {id \in DOMAIN lifecycles : lifecycles[id] \in {"Ready", "Executing", "Idle"}}

\* C40: an instance has a lifecycle record in phase Ready, Executing or Idle
\* (and is counted in the statistics) only while it exists in the instance
\* manager's active map: the record of an instance the cleanup task has
\* stopped is terminated and removed as well.
C40_LifecycleAgreesWithManager ==
    CountedLive \subseteq DOMAIN activeInstances

----------------------------------------------------------------------------
(* Scaling: properties *)

\* the number of instances in the pool
PoolSize == Cardinality(DOMAIN poolInstances)

\* the cooldown that began at `last` is still running
InCooldown(last, cooldown) == ~CooldownElapsed(last, cooldown)

\* C14: no scale-up executes within scale_up_cooldown of the previous
\* scale-up and no scale-down within scale_down_cooldown of the previous
\* scale-down: while the cooldown runs, scale_up adds no instance to the
\* pool and scale_down removes none.
C14_CooldownRespected ==
    [][\A c \in Callers :
          /\ ScaleUpInsert(c)
                => ~InCooldown(lastScaleUp, poolConfig.scale_up_cooldown_secs)
          /\ ScaleDownRemove(c)
                => ~InCooldown(lastScaleDown, poolConfig.scale_down_cooldown_secs)]_vars

\* a call of operation op begins in this step
CallBegins(op) ==
    \E c \in Callers : calls[c].pc = "idle" /\ calls'[c].pc # "idle" /\ calls'[c].op = op

\* C15: the auto-scaler actually scales the pool: a tick that finds a
\* scale-up due adds an instance to the pool (or sets scale_up going), and
\* a tick that finds a scale-down due removes one (or sets scale_down
\* going).
C15_AutoScalerScales ==
    [][(AutoScaleTick /\ UNCHANGED exceptRT) =>
          /\ ScalerDecision.kind = "up"
                => PoolSize' = PoolSize + 1 \/ CallBegins("scale_up")
          /\ ScalerDecision.kind = "down"
                => PoolSize' = PoolSize - 1 \/ CallBegins("scale_down")]_vars

\* the instance is in the pool and its phase is Error
ErrorInPool(id) ==
    /\ id \in DOMAIN poolInstances
    /\ id \in DOMAIN activeInstances
    /\ activeInstances[id].state = "Error"

\* the instance is out of the pool and a younger instance is in it
Replaced(id) ==
    /\ id \notin DOMAIN poolInstances
    /\ \E n \in DOMAIN poolInstances : n > id

\* C16: a pool instance that is in phase Error while the pool is Running is
\* eventually replaced: it is removed from the pool and a new instance is
\* created in its place.
C16_ErrorInstanceReplaced ==
    \A id \in InstanceIds :
        (poolState = "Running" /\ ErrorInPool(id)) ~> Replaced(id)

----------------------------------------------------------------------------
(* Compiler: properties *)

\* the successful returns in the history of compile_function
OkArtifacts == {i \in 1..Len(artifacts) : artifacts[i].kind = "Ok"}

\* C12 as stated: any two successful compilations of the same source hash
\* (of whatever functions) returned the same artifact path.
C12_SameHashSamePath ==
    \A i, j \in OkArtifacts :
        artifacts[i].source_hash = artifacts[j].source_hash
           => artifacts[i].library_path = artifacts[j].library_path

\* C12, amended: any two successful compilations of the same function name
\* and the same source hash returned the same artifact path, whatever was
\* compiled and whatever left the memo table or the cache directory in
\* between.
C12_SameNameAndHashSamePath ==
    \A i, j \in OkArtifacts :
        (/\ artifacts[i].name = artifacts[j].name
         /\ artifacts[i].source_hash = artifacts[j].source_hash)
           => artifacts[i].library_path = artifacts[j].library_path

\* a function was compiled, then compiled from another source (which took
\* its place in the memo table), then compiled from the first source again
C12_Witness ==
    \E i, j, k \in OkArtifacts :
        /\ i < j /\ j < k
        /\ artifacts[j].name = artifacts[i].name
        /\ artifacts[j].source_hash # artifacts[i].source_hash
        /\ artifacts[k].name = artifacts[i].name
        /\ artifacts[k].source_hash = artifacts[i].source_hash

\* the caller's compile_function call has run the toolchain and holds the
\* library it built
HasBuilt(c) == compileCalls[c].pc \in {"cache", "memo"}

\* C31: concurrent compile_function calls for the same function and source
\* hash coalesce into one compilation: no two callers have both run the
\* toolchain for it, the others wait and take the memoized artifact.
C31_SameHashCoalesces ==
    \A c, d \in Callers :
        (/\ c # d
         /\ compileCalls[c].name = compileCalls[d].name
         /\ compileCalls[c].source_hash = compileCalls[d].source_hash)
           => ~(HasBuilt(c) /\ HasBuilt(d))

\* the step is the memoization that ends the caller's compile_function call
Memoizes(c) == compileCalls[c].pc = "memo" /\ compileCalls'[c].pc = "idle"

\* C33: after every compile the memo holds at most max_cache_entries
\* entries, and the entry evicted by an insertion is the oldest one, so
\* never the entry that was just inserted.
C33_EvictsOldest ==
    [][\A c \in Callers :
          Memoizes(c) =>
             /\ Cardinality(DOMAIN compiledFunctions') <= max_cache_entries
             /\ compileCalls[c].name \in DOMAIN compiledFunctions']_vars

====
